---- MODULE Spec2Model ----
(***************************************************************************)
(* TrackingCopy and TrackingCopyCache of the CasperLabs execution engine   *)
(* (execution-engine/engine/src/tracking_copy.rs) as a state machine.      *)
(*                                                                         *)
(* The specifications share the variables:                                 *)
(*   CacheSpec        drives a TrackingCopyCache directly (insert_read,    *)
(*                    insert_write, get) with a meter and a max_cache_size *)
(*                    chosen at construction, as the tests of the module   *)
(*                    tracking_copy_cache do;                              *)
(*   Spec             drives a TrackingCopy (read, write, add, query, get) *)
(*                    over a backing reader, with the cache that           *)
(*                    TrackingCopy::new builds;                            *)
(*   CallsSpec, AddKeysSpec, EffectSpec, QuerySpec                         *)
(*                    drive a TrackingCopy with fewer calls or inputs;     *)
(*   CountingSpec     drives a TrackingCopy over a reader that answers     *)
(*                    every key, as the CountingDb of the tests does;      *)
(*   LoopSpec         runs the eviction loop of insert_read from drawn     *)
(*                    states of the cache;                                 *)
(*   PairSpec, InterleavedSpec                                             *)
(*                    drive two TrackingCopy instances over one reader;    *)
(*   AlgebraSpec      applies Transform's + and apply to drawn inputs.     *)
(***************************************************************************)
EXTENDS Integers, Sequences, FiniteSets, TLC

VARIABLES
    max_cache_size,      \* TrackingCopyCache.max_cache_size
    meter,               \* TrackingCopyCache.meter
    current_cache_size,  \* TrackingCopyCache.current_cache_size
    reads_cached,        \* TrackingCopyCache.reads_cached: entries, front (LRU) first
    muts_cached,         \* TrackingCopyCache.muts_cached: key -> value
    reader,              \* TrackingCopy.reader: the backing state, key -> value
    ops,                 \* TrackingCopy.ops: key -> Op
    fns,                 \* TrackingCopy.fns: key -> Transform
    lastOp,              \* history: the last call, its arguments and what it returned
    written,             \* history: key -> value of the most recent insert_write
    insertOrder,         \* history: keys given to insert_read, while distinct and no get
    touch,               \* history: key -> the kinds of calls made on it so far:
                         \* "read_hit" for a read that found a value, "other"
    steps,               \* number of calls made so far
    other                \* a second TrackingCopy over the same reader, with the
                         \* calls made on each instance (NoOther where there is none)

vars == <<max_cache_size, meter, current_cache_size, reads_cached, muts_cached,
          reader, ops, fns, lastOp, written, insertOrder, touch, steps,
          other>>

-----------------------------------------------------------------------------
(* Bounds of the model                                                     *)

MaxSteps == 3
MaxCacheSteps == 4
MaxCacheSize == 2
MaxWeight == 2

-----------------------------------------------------------------------------
(* Keys                                                                    *)

KeyAccount(id) == [tag |-> "Account", id |-> id, rights |-> "NA"]
KeyHash(id) == [tag |-> "Hash", id |-> id, rights |-> "NA"]
KeyURef(id, rights) == [tag |-> "URef", id |-> id, rights |-> rights]

\* Key::normalize: a URef loses its access rights, any other key is itself.
normalize(k) ==
    IF k.tag = "URef" THEN [k EXCEPT !.rights = "NONE"] ELSE k

-----------------------------------------------------------------------------
(* Values                                                                  *)

MaxI32 == 2147483647
MinI32 == -MaxI32 - 1

Int32(n) == [tag |-> "Int32", n |-> n]
UInt128(n) == [tag |-> "UInt128", n |-> n]
UInt256(n) == [tag |-> "UInt256", n |-> n]
UInt512(n) == [tag |-> "UInt512", n |-> n]
NamedKey(name, key) == [tag |-> "NamedKey", name |-> name, key |-> key]
Account(urefs) == [tag |-> "Account", urefs |-> urefs]
Contract(bytes, urefs) == [tag |-> "Contract", bytes |-> bytes, urefs |-> urefs]
StringValue(bytes) == [tag |-> "String", bytes |-> bytes]

\* i32::wrapping_add, computed without leaving the 32-bit range.
WrappingAdd32(a, b) ==
    IF b > 0 /\ a > MaxI32 - b THEN ((a - MaxI32) - 1) + ((b - MaxI32) - 1)
    ELSE IF b < 0 /\ a < MinI32 - b THEN ((a + MaxI32) + 1) + ((b + MaxI32) + 1)
    ELSE a + b

-----------------------------------------------------------------------------
(* Meters                                                                  *)

CountMeter == [kind |-> "Count", weight |-> <<>>]
HeapSizeMeter == [kind |-> "HeapSize", weight |-> <<>>]
TableMeter(w) == [kind |-> "Table", weight |-> w]

KeyBytes == 40

\* heap_meter::HeapSize: an estimate of the bytes the key and the value occupy.
HeapSize(k, v) ==
    KeyBytes +
    CASE v.tag = "Int32" -> 4
      [] v.tag = "UInt128" -> 16
      [] v.tag = "UInt256" -> 32
      [] v.tag = "UInt512" -> 64
      [] v.tag = "NamedKey" -> KeyBytes + 8
      [] v.tag = "Account" -> 128 + (KeyBytes + 8) * Cardinality(DOMAIN v.urefs)
      [] v.tag = "Contract" -> v.bytes + (KeyBytes + 8) * Cardinality(DOMAIN v.urefs)
      [] OTHER -> v.bytes

\* Meter::measure(&self.meter, &key, &value)
Measure(m, k, v) ==
    CASE m.kind = "Count" -> 1
      [] m.kind = "HeapSize" -> HeapSize(k, v)
      [] OTHER -> m.weight[v]

-----------------------------------------------------------------------------
(* LinkedHashMap<Key, Value>: a sequence of entries in recency order, the  *)
(* least recently inserted or refreshed entry first.                       *)

Entry(k, v) == [key |-> k, value |-> v]

ReadKeys(s) == [i \in 1..Len(s) |-> s[i].key]

LhmContains(s, k) == \E i \in 1..Len(s) : s[i].key = k

LhmIndex(s, k) == CHOOSE i \in 1..Len(s) : s[i].key = k

LhmRemove(s, k) == SelectSeq(s, LAMBDA e : e.key # k)

\* LinkedHashMap::insert: a new entry, or the new value of an old one, is
\* attached at the most recent position.
LhmInsert(s, k, v) == Append(LhmRemove(s, k), Entry(k, v))

\* LinkedHashMap::get_refresh: a hit moves the entry to the most recent position.
LhmGetRefresh(s, k) ==
    IF LhmContains(s, k)
    THEN Append(LhmRemove(s, k), s[LhmIndex(s, k)])
    ELSE s

-----------------------------------------------------------------------------
(* Option and map helpers                                                  *)

Min(a, b) == IF a < b THEN a ELSE b

None == [tag |-> "None"]
Some(v) == [tag |-> "Some", v |-> v]

EmptyMap == <<>>

\* HashMap::insert
MapPut(m, k, v) == [x \in (DOMAIN m) \cup {k} |-> IF x = k THEN v ELSE m[x]]

-----------------------------------------------------------------------------
(* TrackingCopyCache, as a record of its fields                            *)

NewCache(max, m) ==
    [max_cache_size |-> max, meter |-> m, current_cache_size |-> 0,
     reads_cached |-> <<>>, muts_cached |-> EmptyMap]

\* The loop with pop_back in place of pop_front: the most recent entry goes first.
RECURSIVE EvictLoop_PopBack(_)
EvictLoop_PopBack(c) ==
    IF c.current_cache_size > c.max_cache_size /\ c.reads_cached # <<>>
    THEN LET n == Len(c.reads_cached)
             e == c.reads_cached[n]
             element_size == Measure(c.meter, e.key, e.value)
         IN  EvictLoop_PopBack([c EXCEPT !.reads_cached = SubSeq(@, 1, n - 1),
                                         !.current_cache_size = @ - element_size])
    ELSE c

\* The while loop of insert_read: pop the front entry and subtract its
\* re-measured weight, until the counter is within the bound or nothing is left.
RECURSIVE EvictLoop(_)
EvictLoop(c) ==
    IF c.current_cache_size > c.max_cache_size /\ c.reads_cached # <<>>
    THEN LET e == Head(c.reads_cached)
             element_size == Measure(c.meter, e.key, e.value)
         IN  EvictLoop([c EXCEPT !.reads_cached = Tail(@),
                                 !.current_cache_size = @ - element_size])
    ELSE c

\* insert_read with an `if` in place of the `while`: at most one entry is popped.
insert_read_EvictOnce(c, key, value) ==
    LET element_size == Measure(c.meter, key, value)
        d == [c EXCEPT !.reads_cached = LhmInsert(@, key, value),
                       !.current_cache_size = @ + element_size]
    IN  IF d.current_cache_size > d.max_cache_size
        THEN [d EXCEPT !.reads_cached = Tail(@),
                       !.current_cache_size =
                           @ - Measure(d.meter, Head(d.reads_cached).key,
                                       Head(d.reads_cached).value)]
        ELSE d

\* insert_read that counts one for the entry, whatever the meter says.
insert_read_CountsOne(c, key, value) ==
    EvictLoop([c EXCEPT !.reads_cached = LhmInsert(@, key, value),
                        !.current_cache_size = @ + 1])

insert_read(c, key, value) ==
    LET element_size == Measure(c.meter, key, value)
    IN  EvictLoop([c EXCEPT !.reads_cached = LhmInsert(@, key, value),
                            !.current_cache_size = @ + element_size])

insert_write(c, key, value) ==
    [c EXCEPT !.muts_cached = MapPut(@, key, value)]

\* A loop that pops an entry only when it weighs something: an entry of weight
\* zero stays at the front.
RECURSIVE EvictRun_KeepsWeightless(_, _, _)
EvictRun_KeepsWeightless(c, n, fuel) ==
    IF fuel = 0 THEN [cache |-> c, iterations |-> n, done |-> FALSE]
    ELSE IF c.current_cache_size <= c.max_cache_size
    THEN [cache |-> c, iterations |-> n, done |-> TRUE]
    ELSE IF c.reads_cached = <<>>
    THEN [cache |-> c, iterations |-> n + 1, done |-> TRUE]
    ELSE LET e == Head(c.reads_cached)
             element_size == Measure(c.meter, e.key, e.value)
         IN  IF element_size = 0
             THEN EvictRun_KeepsWeightless(c, n + 1, fuel - 1)
             ELSE EvictRun_KeepsWeightless(
                      [c EXCEPT !.reads_cached = Tail(@),
                                !.current_cache_size = @ - element_size],
                      n + 1, fuel - 1)

\* The while loop of insert_read run from the cache c for at most fuel
\* iterations, n counting them: an iteration pops the front entry and
\* subtracts its weight, or finds the tier empty and breaks.  done tells
\* whether the loop has ended.
RECURSIVE EvictRun(_, _, _)
EvictRun(c, n, fuel) ==
    IF fuel = 0 THEN [cache |-> c, iterations |-> n, done |-> FALSE]
    ELSE IF c.current_cache_size <= c.max_cache_size
    THEN [cache |-> c, iterations |-> n, done |-> TRUE]
    ELSE IF c.reads_cached = <<>>
    THEN [cache |-> c, iterations |-> n + 1, done |-> TRUE]
    ELSE LET e == Head(c.reads_cached)
             element_size == Measure(c.meter, e.key, e.value)
         IN  EvictRun([c EXCEPT !.reads_cached = Tail(@),
                                !.current_cache_size = @ - element_size],
                      n + 1, fuel - 1)

\* get that consults the read tier before the mutation tier.
cache_get_ReadsFirst(c, key) ==
    IF LhmContains(c.reads_cached, key)
    THEN [cache |-> [c EXCEPT !.reads_cached = LhmGetRefresh(@, key)],
          value |-> Some(c.reads_cached[LhmIndex(c.reads_cached, key)].value)]
    ELSE IF key \in DOMAIN c.muts_cached
    THEN [cache |-> c, value |-> Some(c.muts_cached[key])]
    ELSE [cache |-> c, value |-> None]

\* get that looks the key up in the read tier without refreshing it.
cache_get_NoRefresh(c, key) ==
    IF key \in DOMAIN c.muts_cached
    THEN [cache |-> c, value |-> Some(c.muts_cached[key])]
    ELSE IF LhmContains(c.reads_cached, key)
    THEN [cache |-> c,
          value |-> Some(c.reads_cached[LhmIndex(c.reads_cached, key)].value)]
    ELSE [cache |-> c, value |-> None]

\* TrackingCopyCache::get: the mutation tier first, then the read tier with refresh.
cache_get(c, key) ==
    IF key \in DOMAIN c.muts_cached
    THEN [cache |-> c, value |-> Some(c.muts_cached[key])]
    ELSE IF LhmContains(c.reads_cached, key)
    THEN [cache |-> [c EXCEPT !.reads_cached = LhmGetRefresh(@, key)],
          value |-> Some(c.reads_cached[LhmIndex(c.reads_cached, key)].value)]
    ELSE [cache |-> c, value |-> None]

is_empty(c) == c.reads_cached = <<>> /\ DOMAIN c.muts_cached = {}

\* The total weight of the entries a read tier holds, as the meter measures them.
RECURSIVE SumWeights(_, _)
SumWeights(m, s) ==
    IF s = <<>> THEN 0
    ELSE Measure(m, Head(s).key, Head(s).value) + SumWeights(m, Tail(s))

-----------------------------------------------------------------------------
(* The cache of the current state, and its update                          *)

Cache ==
    [max_cache_size |-> max_cache_size, meter |-> meter,
     current_cache_size |-> current_cache_size,
     reads_cached |-> reads_cached, muts_cached |-> muts_cached]

SetCache(c) ==
    /\ max_cache_size' = c.max_cache_size
    /\ meter' = c.meter
    /\ current_cache_size' = c.current_cache_size
    /\ reads_cached' = c.reads_cached
    /\ muts_cached' = c.muts_cached

NoKey == [tag |-> "NoKey", id |-> 0, rights |-> "NA"]
NoValue == [tag |-> "NoValue"]
\* A call: its name and arguments, what it returned, a count (entries evicted
\* by insert_read, position of a read-tier hit of the cache's get, reads of the
\* backing reader by a TrackingCopy call) and the op recorded for its key before.
Call(op, key, val, res, info, before) ==
    [op |-> op, key |-> key, val |-> val, res |-> res, info |-> info,
     before |-> before]
NoCall == Call("new", NoKey, NoValue, None, 0, "None")
NoOther == [tag |-> "None"]

-----------------------------------------------------------------------------
(* CacheSpec: a TrackingCopyCache driven directly                          *)

CacheKeys == {KeyHash(1), KeyHash(2), KeyHash(3)}
CacheValues == {Int32(1), Int32(2)}
CacheMeters ==
    {CountMeter} \cup {TableMeter(w) : w \in [CacheValues -> 0..MaxWeight]}

CacheInit ==
    /\ \E max \in 0..MaxCacheSize, m \in CacheMeters :
         LET c == NewCache(max, m) IN
         /\ max_cache_size = c.max_cache_size
         /\ meter = c.meter
         /\ current_cache_size = c.current_cache_size
         /\ reads_cached = c.reads_cached
         /\ muts_cached = c.muts_cached
    /\ reader = EmptyMap
    /\ ops = EmptyMap
    /\ fns = EmptyMap
    /\ lastOp = NoCall
    /\ written = EmptyMap
    /\ insertOrder = [valid |-> TRUE, keys |-> <<>>]
    /\ touch = EmptyMap
    /\ other = NoOther
    /\ steps = 0

InsertRead(key, value) ==
    LET c == insert_read(Cache, key, value) IN
    /\ steps < MaxCacheSteps
    /\ SetCache(c)
    /\ lastOp' = Call("insert_read", key, value, None,
                      Len(reads_cached) + 1 - Len(c.reads_cached)
                        - (IF LhmContains(reads_cached, key) THEN 1 ELSE 0),
                      "None")
    /\ insertOrder' =
         IF insertOrder.valid /\ ~ \E i \in 1..Len(insertOrder.keys) : insertOrder.keys[i] = key
         THEN [insertOrder EXCEPT !.keys = Append(@, key)]
         ELSE [valid |-> FALSE, keys |-> <<>>]
    /\ steps' = steps + 1
    /\ UNCHANGED <<reader, ops, fns, written, touch, other>>

InsertWrite(key, value) ==
    /\ steps < MaxCacheSteps
    /\ SetCache(insert_write(Cache, key, value))
    /\ lastOp' = Call("insert_write", key, value, None, 0, "None")
    /\ written' = MapPut(written, key, value)
    /\ steps' = steps + 1
    /\ UNCHANGED <<reader, ops, fns, insertOrder, touch, other>>

CacheGet(key) ==
    LET r == cache_get(Cache, key) IN
    /\ steps < MaxCacheSteps
    /\ SetCache(r.cache)
    /\ lastOp' = Call("get", key, NoValue, r.value,
                      IF key \notin DOMAIN muts_cached /\ LhmContains(reads_cached, key)
                      THEN LhmIndex(reads_cached, key) ELSE 0,
                      "None")
    /\ insertOrder' = [valid |-> FALSE, keys |-> <<>>]
    /\ steps' = steps + 1
    /\ UNCHANGED <<reader, ops, fns, written, touch, other>>

CacheNext ==
    \/ \E key \in CacheKeys, value \in CacheValues : InsertRead(key, value)
    \/ \E key \in CacheKeys, value \in CacheValues : InsertWrite(key, value)
    \/ \E key \in CacheKeys : CacheGet(key)

CacheSpec == CacheInit /\ [][CacheNext]_vars

-----------------------------------------------------------------------------
(* Transform: Identity, Write(v), AddInt32(i), AddUInt128/256/512(i),      *)
(* AddKeys(map) and Failure(type mismatch), with apply and the composition *)
(* `+` that utils::add uses to join the transform recorded for a key.      *)

Identity == [tag |-> "Identity"]
TWrite(v) == [tag |-> "Write", v |-> v]
AddInt32(n) == [tag |-> "AddInt32", n |-> n]
AddUInt(tag, n) == [tag |-> tag, n |-> n]
AddKeys(m) == [tag |-> "AddKeys", urefs |-> m]
Failure(e) == [tag |-> "Failure", error |-> e]

TypeMismatch(expected, found) == [expected |-> expected, found |-> found]

\* Value::type_string
type_string(v) == v.tag

Ok(v) == [ok |-> TRUE, value |-> v]
Err(e) == [ok |-> FALSE, error |-> e]

UIntTags == {"UInt128", "UInt256", "UInt512"}
AddUIntTags == {"AddUInt128", "AddUInt256", "AddUInt512"}
UIntTagOf(t) ==
    CASE t = "AddUInt128" -> "UInt128"
      [] t = "AddUInt256" -> "UInt256"
      [] t = "AddUInt512" -> "UInt512"

\* BTreeMap::append: the bindings of m2 are added to m1, m2 winning on a name
\* both bind.
MapAppend(m1, m2) == m2 @@ m1

\* Transform::apply
Apply(t, v) ==
    CASE t.tag = "Identity" -> Ok(v)
      [] t.tag = "Write" -> Ok(t.v)
      [] t.tag = "AddInt32" ->
            IF v.tag = "Int32" THEN Ok(Int32(WrappingAdd32(v.n, t.n)))
            ELSE Err(TypeMismatch("Int32", type_string(v)))
      [] t.tag \in AddUIntTags ->
            IF v.tag = UIntTagOf(t.tag) THEN Ok([tag |-> v.tag, n |-> v.n + t.n])
            ELSE Err(TypeMismatch(UIntTagOf(t.tag), type_string(v)))
      [] t.tag = "AddKeys" ->
            IF v.tag \in {"Account", "Contract"}
            THEN Ok([v EXCEPT !.urefs = MapAppend(@, t.urefs)])
            ELSE Err(TypeMismatch("Contract or Account", type_string(v)))
      [] t.tag = "Failure" -> Err(t.error)

TransformAdd_KeepsFirst(a, b) == a

\* impl Add for Transform: a + b, a recorded first.
TransformAdd(a, b) ==
    CASE b.tag = "Identity" -> a
      [] a.tag = "Identity" -> b
      [] a.tag = "Failure" -> a
      [] b.tag = "Failure" -> b
      [] b.tag = "Write" -> b
      [] a.tag = "Write" ->
            LET r == Apply(b, a.v) IN
            IF r.ok THEN TWrite(r.value) ELSE Failure(r.error)
      [] a.tag = "AddInt32" ->
            IF b.tag = "AddInt32" THEN AddInt32(WrappingAdd32(a.n, b.n))
            ELSE Failure(TypeMismatch("AddInt32", b.tag))
      [] a.tag \in AddUIntTags ->
            IF b.tag = a.tag THEN AddUInt(a.tag, a.n + b.n)
            ELSE Failure(TypeMismatch(a.tag, b.tag))
      [] a.tag = "AddKeys" ->
            IF b.tag = "AddKeys" THEN AddKeys(MapAppend(a.urefs, b.urefs))
            ELSE Failure(TypeMismatch("AddKeys", b.tag))

-----------------------------------------------------------------------------
(* Op: Read, Write, Add and the join `+` that utils::add uses for ops.     *)

OpRead == "Read"
OpWrite == "Write"
OpAdd == "Add"

\* The join with a read absorbed by an add: Read + Add = Add.
OpPlus_ReadAddIsAdd(a, b) ==
    CASE a = OpRead -> b
      [] b = OpRead -> a
      [] a = OpAdd /\ b = OpAdd -> OpAdd
      [] OTHER -> OpWrite

\* The join that keeps the op recorded last.
OpPlus_LastWins(a, b) == b

\* impl Add for Op: two reads are a read, two adds are an add, anything else
\* is a write (tracking_copy_ra: "Read+Add = Write").
OpPlus(a, b) ==
    CASE a = OpRead /\ b = OpRead -> OpRead
      [] a = OpAdd /\ b = OpAdd -> OpAdd
      [] OTHER -> OpWrite

\* The `+` of the value type V of utils::add: Op for ops, Transform for fns.
Plus(V, a, b) ==
    IF V = "Op" THEN OpPlus(a, b) ELSE TransformAdd(a, b)

\* utils::add(&mut map, k, v): the entry of k becomes curr + v, or v when the
\* map has no entry for k.
utils_add(map, k, v, V) ==
    IF k \in DOMAIN map
    THEN [map EXCEPT ![k] = Plus(V, @, v)]
    ELSE MapPut(map, k, v)

-----------------------------------------------------------------------------
(* TrackingCopy, as a record of its fields.  Two more fields observe the   *)
(* call in progress: `calls` counts its reads of the backing reader and    *)
(* `reads` lists the keys it passed to read, each with the outcome.        *)

DefaultMaxCacheSize == 16384

NewTrackingCopy ==
    [cache |-> NewCache(DefaultMaxCacheSize, HeapSizeMeter),
     ops |-> EmptyMap, fns |-> EmptyMap, calls |-> 0, reads |-> <<>>]

ReaderError == [tag |-> "Err", error |-> "ReaderError"]

\* StateReader::read of the backing reader rd; it fails on the keys of bad.
ReaderRead(rd, bad, k) ==
    IF k \in bad THEN ReaderError
    ELSE IF k \in DOMAIN rd THEN Some(rd[k])
    ELSE None

\* get that takes an error of the reader for a missing key.
get_ErrorAsNone(tc, rd, bad, k) ==
    LET FromReader(called, r) ==
            IF r = ReaderError THEN [tc |-> called, res |-> None]
            ELSE IF r # None
            THEN [tc |-> [called EXCEPT !.cache = insert_read(@, k, r.v)],
                  res |-> r]
            ELSE [tc |-> called, res |-> None]
        FromCache(hit) ==
            IF hit.value # None
            THEN [tc |-> [tc EXCEPT !.cache = hit.cache], res |-> hit.value]
            ELSE FromReader([tc EXCEPT !.cache = hit.cache, !.calls = @ + 1],
                            ReaderRead(rd, bad, k))
    IN  FromCache(cache_get(tc.cache, k))

\* get that hands back what the reader returned without keeping it.
get_NoInsertRead(tc, rd, bad, k) ==
    LET FromReader(called, r) ==
            IF r = ReaderError THEN [tc |-> called, res |-> ReaderError]
            ELSE IF r # None
            THEN [tc |-> called, res |-> r]
            ELSE [tc |-> called, res |-> None]
        FromCache(hit) ==
            IF hit.value # None
            THEN [tc |-> [tc EXCEPT !.cache = hit.cache], res |-> hit.value]
            ELSE FromReader([tc EXCEPT !.cache = hit.cache, !.calls = @ + 1],
                            ReaderRead(rd, bad, k))
    IN  FromCache(cache_get(tc.cache, k))

\* get that asks the reader without looking into the cache first.
get_ReaderFirst(tc, rd, bad, k) ==
    LET FromReader(called, r) ==
            IF r = ReaderError THEN [tc |-> called, res |-> ReaderError]
            ELSE IF r # None
            THEN [tc |-> [called EXCEPT !.cache = insert_read(@, k, r.v)],
                  res |-> r]
            ELSE [tc |-> called, res |-> None]
    IN  FromReader([tc EXCEPT !.calls = @ + 1], ReaderRead(rd, bad, k))

\* TrackingCopy::get
get(tc, rd, bad, k) ==
    LET FromReader(called, r) ==
            IF r = ReaderError THEN [tc |-> called, res |-> ReaderError]
            ELSE IF r # None
            THEN [tc |-> [called EXCEPT !.cache = insert_read(@, k, r.v)],
                  res |-> r]
            ELSE [tc |-> called, res |-> None]
        FromCache(hit) ==
            IF hit.value # None
            THEN [tc |-> [tc EXCEPT !.cache = hit.cache], res |-> hit.value]
            ELSE FromReader([tc EXCEPT !.cache = hit.cache, !.calls = @ + 1],
                            ReaderRead(rd, bad, k))
    IN  FromCache(cache_get(tc.cache, k))

ReadOutcome(res) == IF res.tag = "Some" THEN "read_hit" ELSE "other"

\* read that records the op of a hit and forgets the transform.
read_OpOnly(tc, rd, bad, key) ==
    LET k == normalize(key)
        Seen(g) == [g.tc EXCEPT !.reads = Append(@, [key |-> k, kind |-> ReadOutcome(g.res)])]
        Got(g) ==
            IF g.res.tag = "Some"
            THEN [tc |-> [g.tc EXCEPT !.ops = utils_add(@, k, OpRead, "Op")],
                  res |-> g.res]
            ELSE g
        Noted(g) == Got([tc |-> Seen(g), res |-> g.res])
    IN  Noted(get(tc, rd, bad, k))

\* read that hands back what get returns and records nothing.
read_AsGet(tc, rd, bad, key) ==
    LET k == normalize(key)
        Seen(g) == [g.tc EXCEPT !.reads = Append(@, [key |-> k, kind |-> ReadOutcome(g.res)])]
        Noted(g) == [tc |-> Seen(g), res |-> g.res]
    IN  Noted(get(tc, rd, bad, k))

\* read that records Op::Read and Identity for a key without a value too.
read_RecordsMiss(tc, rd, bad, key) ==
    LET k == normalize(key)
        Seen(g) == [g.tc EXCEPT !.reads = Append(@, [key |-> k, kind |-> ReadOutcome(g.res)])]
        Got(g) ==
            IF g.res = ReaderError THEN g
            ELSE [tc |-> [g.tc EXCEPT !.ops = utils_add(@, k, OpRead, "Op"),
                                      !.fns = utils_add(@, k, Identity, "Transform")],
                  res |-> g.res]
        Noted(g) == Got([tc |-> Seen(g), res |-> g.res])
    IN  Noted(get(tc, rd, bad, k))

\* read that puts Identity in place of the transform recorded for the key.
read_ResetsTransform(tc, rd, bad, key) ==
    LET k == normalize(key)
        Seen(g) == [g.tc EXCEPT !.reads = Append(@, [key |-> k, kind |-> ReadOutcome(g.res)])]
        Got(g) ==
            IF g.res.tag = "Some"
            THEN [tc |-> [g.tc EXCEPT !.ops = utils_add(@, k, OpRead, "Op"),
                                      !.fns = MapPut(@, k, Identity)],
                  res |-> g.res]
            ELSE g
        Noted(g) == Got([tc |-> Seen(g), res |-> g.res])
    IN  Noted(get(tc, rd, bad, k))

\* TrackingCopy::read
read(tc, rd, bad, key) ==
    LET k == normalize(key)
        Seen(g) == [g.tc EXCEPT !.reads = Append(@, [key |-> k, kind |-> ReadOutcome(g.res)])]
        Got(g) ==
            IF g.res.tag = "Some"
            THEN [tc |-> [g.tc EXCEPT !.ops = utils_add(@, k, OpRead, "Op"),
                                      !.fns = utils_add(@, k, Identity, "Transform")],
                  res |-> g.res]
            ELSE g
        Noted(g) == Got([tc |-> Seen(g), res |-> g.res])
    IN  Noted(get(tc, rd, bad, k))

\* write that uses the key as given, without normalize.
write_NoNormalize(tc, key, v) ==
    [tc EXCEPT !.cache = insert_write(@, key, v),
               !.ops = utils_add(@, key, OpWrite, "Op"),
               !.fns = utils_add(@, key, TWrite(v), "Transform")]

\* TrackingCopy::write
write(tc, key, v) ==
    LET k == normalize(key) IN
    [tc EXCEPT !.cache = insert_write(@, k, v),
               !.ops = utils_add(@, k, OpWrite, "Op"),
               !.fns = utils_add(@, k, TWrite(v), "Transform")]

Success == [tag |-> "Success"]
KeyNotFound(k) == [tag |-> "KeyNotFound", key |-> k]
AddTypeMismatch(e) == [tag |-> "TypeMismatch", error |-> e]

\* The transform of the addend with the binding of a NamedKey left out.
AddendTransform_EmptyKeys(v) ==
    CASE v.tag = "Int32" -> AddInt32(v.n)
      [] v.tag = "UInt128" -> AddUInt("AddUInt128", v.n)
      [] v.tag = "UInt256" -> AddUInt("AddUInt256", v.n)
      [] v.tag = "UInt512" -> AddUInt("AddUInt512", v.n)
      [] v.tag = "NamedKey" -> AddKeys(EmptyMap)

AddendTransform(v) ==
    CASE v.tag = "Int32" -> AddInt32(v.n)
      [] v.tag = "UInt128" -> AddUInt("AddUInt128", v.n)
      [] v.tag = "UInt256" -> AddUInt("AddUInt256", v.n)
      [] v.tag = "UInt512" -> AddUInt("AddUInt512", v.n)
      [] v.tag = "NamedKey" -> AddKeys(MapPut(EmptyMap, v.name, v.key))

AddableTags == {"Int32", "UInt128", "UInt256", "UInt512", "NamedKey"}

\* add that joins the op and the transform into the logs before it looks at
\* the result of apply.
add_RecordsOnMismatch(tc, rd, bad, key, v) ==
    LET k == normalize(key)
        Applied(logged, a) ==
            IF a.ok
            THEN [tc |-> [logged EXCEPT !.cache = insert_write(@, k, a.value)],
                  res |-> Success]
            ELSE [tc |-> logged, res |-> AddTypeMismatch(a.error)]
        Logged(g, t) ==
            [g.tc EXCEPT !.ops = utils_add(@, k, OpAdd, "Op"),
                         !.fns = utils_add(@, k, t, "Transform")]
        WithCurr(g, curr) ==
            IF v.tag \notin AddableTags
            THEN [tc |-> g.tc,
                  res |-> AddTypeMismatch(
                            TypeMismatch("Int32 or UInt* or NamedKey", type_string(v)))]
            ELSE Applied(Logged(g, AddendTransform(v)), Apply(AddendTransform(v), curr))
        Got(g) ==
            CASE g.res = ReaderError -> g
              [] g.res = None -> [tc |-> g.tc, res |-> KeyNotFound(k)]
              [] OTHER -> WithCurr(g, g.res.v)
    IN  Got(get(tc, rd, bad, k))

\* add that leaves the new value out of the mutation tier.
add_NoCacheUpdate(tc, rd, bad, key, v) ==
    LET k == normalize(key)
        Applied(g, t, a) ==
            IF a.ok
            THEN [tc |-> [g.tc EXCEPT
                            !.ops = utils_add(@, k, OpAdd, "Op"),
                            !.fns = utils_add(@, k, t, "Transform")],
                  res |-> Success]
            ELSE [tc |-> g.tc, res |-> AddTypeMismatch(a.error)]
        WithCurr(g, curr) ==
            IF v.tag \notin AddableTags
            THEN [tc |-> g.tc,
                  res |-> AddTypeMismatch(
                            TypeMismatch("Int32 or UInt* or NamedKey", type_string(v)))]
            ELSE Applied(g, AddendTransform(v), Apply(AddendTransform(v), curr))
        Got(g) ==
            CASE g.res = ReaderError -> g
              [] g.res = None -> [tc |-> g.tc, res |-> KeyNotFound(k)]
              [] OTHER -> WithCurr(g, g.res.v)
    IN  Got(get(tc, rd, bad, k))

\* add that stores the addend itself in the mutation tier.
add_WritesAddend(tc, rd, bad, key, v) ==
    LET k == normalize(key)
        Applied(g, t, a) ==
            IF a.ok
            THEN [tc |-> [g.tc EXCEPT
                            !.cache = insert_write(@, k, v),
                            !.ops = utils_add(@, k, OpAdd, "Op"),
                            !.fns = utils_add(@, k, t, "Transform")],
                  res |-> Success]
            ELSE [tc |-> g.tc, res |-> AddTypeMismatch(a.error)]
        WithCurr(g, curr) ==
            IF v.tag \notin AddableTags
            THEN [tc |-> g.tc,
                  res |-> AddTypeMismatch(
                            TypeMismatch("Int32 or UInt* or NamedKey", type_string(v)))]
            ELSE Applied(g, AddendTransform(v), Apply(AddendTransform(v), curr))
        Got(g) ==
            CASE g.res = ReaderError -> g
              [] g.res = None -> [tc |-> g.tc, res |-> KeyNotFound(k)]
              [] OTHER -> WithCurr(g, g.res.v)
    IN  Got(get(tc, rd, bad, k))

\* add that looks at the variant of the addend before it looks the key up.
add_AddendFirst(tc, rd, bad, key, v) ==
    LET k == normalize(key)
        Applied(g, t, a) ==
            IF a.ok
            THEN [tc |-> [g.tc EXCEPT
                            !.cache = insert_write(@, k, a.value),
                            !.ops = utils_add(@, k, OpAdd, "Op"),
                            !.fns = utils_add(@, k, t, "Transform")],
                  res |-> Success]
            ELSE [tc |-> g.tc, res |-> AddTypeMismatch(a.error)]
        Got(g) ==
            CASE g.res = ReaderError -> g
              [] g.res = None -> [tc |-> g.tc, res |-> KeyNotFound(k)]
              [] OTHER -> Applied(g, AddendTransform(v),
                                  Apply(AddendTransform(v), g.res.v))
    IN  IF v.tag \notin AddableTags
        THEN [tc |-> tc,
              res |-> AddTypeMismatch(
                        TypeMismatch("Int32 or UInt* or NamedKey", type_string(v)))]
        ELSE Got(get(tc, rd, bad, k))

\* TrackingCopy::add
add(tc, rd, bad, key, v) ==
    LET k == normalize(key)
        Applied(g, t, a) ==
            IF a.ok
            THEN [tc |-> [g.tc EXCEPT
                            !.cache = insert_write(@, k, a.value),
                            !.ops = utils_add(@, k, OpAdd, "Op"),
                            !.fns = utils_add(@, k, t, "Transform")],
                  res |-> Success]
            ELSE [tc |-> g.tc, res |-> AddTypeMismatch(a.error)]
        WithCurr(g, curr) ==
            IF v.tag \notin AddableTags
            THEN [tc |-> g.tc,
                  res |-> AddTypeMismatch(
                            TypeMismatch("Int32 or UInt* or NamedKey", type_string(v)))]
            ELSE Applied(g, AddendTransform(v), Apply(AddendTransform(v), curr))
        Got(g) ==
            CASE g.res = ReaderError -> g
              [] g.res = None -> [tc |-> g.tc, res |-> KeyNotFound(k)]
              [] OTHER -> WithCurr(g, g.res.v)
    IN  Got(get(tc, rd, bad, k))

\* TrackingCopy::effect
effect_OpsOnly(tc) == [ops |-> tc.ops, transforms |-> EmptyMap]

effect(tc) == [ops |-> tc.ops, transforms |-> tc.fns]

-----------------------------------------------------------------------------
(* TrackingCopy::query.  A String is modelled by its parts: the message of *)
(* a ValueNotFound is the text chosen at the failing step, the base key    *)
(* and the names error_path_msg appends.                                   *)

QSuccess(v) == [tag |-> "Success", v |-> v]
ValueNotFound(msg) == [tag |-> "ValueNotFound", msg |-> msg]

EmptyText == [text |-> ""]
NameNotFoundIn(kind, name) ==
    [text |-> "Name {} not found in {} at path:", name |-> name, kind |-> kind]
KeyNotFoundText(key) ==
    [text |-> "Name {:?} not found: ", key |-> key]
CannotFollow(name, value) ==
    [text |-> "Name {} cannot be followed from value {:?} because it is neither an account nor contract. Value found at path:",
     name |-> name, value |-> value]

\* error_path_msg that appends the name at the failing index too.
error_path_msg_Inclusive(key, path, missing_key, missing_at_index) ==
    [missing_key |-> missing_key, key |-> key,
     suffix |-> SubSeq(path, 1, Min(missing_at_index + 1, Len(path)))]

\* TrackingCopy::error_path_msg
error_path_msg(key, path, missing_key, missing_at_index) ==
    [missing_key |-> missing_key, key |-> key,
     suffix |-> SubSeq(path, 1, Min(missing_at_index, Len(path)))]

FoldOk(v) == [tag |-> "Ok", value |-> v]
FoldStop(i, text) == [tag |-> "Stop", i |-> i, text |-> text]

\* read_key_or_stop that fetches the key with get, which records nothing.
read_key_or_stop_Get(tc, rd, bad, key, i) ==
    LET Got(r) ==
            CASE r.res = ReaderError -> [tc |-> r.tc, res |-> ReaderError]
              [] r.res = None -> [tc |-> r.tc, res |-> FoldStop(i, KeyNotFoundText(key))]
              [] OTHER -> [tc |-> r.tc, res |-> FoldOk(r.res.v)]
    IN  Got(get(tc, rd, bad, normalize(key)))

\* read_key_or_stop that reads the key a second time before it looks at the
\* outcome.
read_key_or_stop_Twice(tc, rd, bad, key, i) ==
    LET Got(r) ==
            CASE r.res = ReaderError -> [tc |-> r.tc, res |-> ReaderError]
              [] r.res = None -> [tc |-> r.tc, res |-> FoldStop(i, KeyNotFoundText(key))]
              [] OTHER -> [tc |-> r.tc, res |-> FoldOk(r.res.v)]
    IN  Got(read(read(tc, rd, bad, key).tc, rd, bad, key))

\* TrackingCopy::read_key_or_stop
read_key_or_stop(tc, rd, bad, key, i) ==
    LET Got(r) ==
            CASE r.res = ReaderError -> [tc |-> r.tc, res |-> ReaderError]
              [] r.res = None -> [tc |-> r.tc, res |-> FoldStop(i, KeyNotFoundText(key))]
              [] OTHER -> [tc |-> r.tc, res |-> FoldOk(r.res.v)]
    IN  Got(read(tc, rd, bad, key))

\* The fold cut short: it follows one name and takes the value found there
\* as the result.
QueryFold_OneStep(tc, rd, bad, curr_value, path, i) ==
    IF i >= Len(path) THEN [tc |-> tc, res |-> FoldOk(curr_value)]
    ELSE
    LET name == path[i + 1] IN
    IF curr_value.tag \in {"Account", "Contract"}
    THEN IF name \in DOMAIN curr_value.urefs
         THEN read_key_or_stop(tc, rd, bad, curr_value.urefs[name], i)
         ELSE [tc |-> tc, res |-> FoldStop(i, NameNotFoundIn(curr_value.tag, name))]
    ELSE [tc |-> tc, res |-> FoldStop(i, CannotFollow(name, curr_value))]

\* The try_fold of query over path.iter().enumerate(), from index i (0-based)
\* with curr_value as the accumulator.
RECURSIVE QueryFold(_, _, _, _, _, _)
QueryFold(tc, rd, bad, curr_value, path, i) ==
    IF i >= Len(path) THEN [tc |-> tc, res |-> FoldOk(curr_value)]
    ELSE
    LET name == path[i + 1]
        Followed(r) ==
            IF r.res.tag = "Ok"
            THEN QueryFold(r.tc, rd, bad, r.res.value, path, i + 1)
            ELSE r
    IN
    IF curr_value.tag \in {"Account", "Contract"}
    THEN IF name \in DOMAIN curr_value.urefs
         THEN Followed(read_key_or_stop(tc, rd, bad, curr_value.urefs[name], i))
         ELSE [tc |-> tc, res |-> FoldStop(i, NameNotFoundIn(curr_value.tag, name))]
    ELSE [tc |-> tc, res |-> FoldStop(i, CannotFollow(name, curr_value))]

\* query that fetches the base key with get, which records nothing.
query_GetBase(tc, rd, bad, base_key, path) ==
    LET Folded(f) ==
            CASE f.res = ReaderError -> f
              [] f.res.tag = "Ok" -> [tc |-> f.tc, res |-> QSuccess(f.res.value)]
              [] OTHER ->
                    [tc |-> f.tc,
                     res |-> ValueNotFound(
                               error_path_msg(base_key, path, f.res.text, f.res.i))]
        Got(r) ==
            CASE r.res = ReaderError -> r
              [] r.res = None ->
                    [tc |-> r.tc,
                     res |-> ValueNotFound(error_path_msg(base_key, path, EmptyText, 0))]
              [] OTHER -> Folded(QueryFold(r.tc, rd, bad, r.res.v, path, 0))
    IN  Got(get(tc, rd, bad, normalize(base_key)))

\* query that gives back the TrackingCopy it started from when it does not
\* end in Success.
query_RollsBack(tc, rd, bad, base_key, path) ==
    LET Undone(q) ==
            IF q.res.tag = "Success" THEN q
            ELSE [tc |-> [tc EXCEPT !.calls = q.tc.calls, !.reads = q.tc.reads],
                  res |-> q.res]
        Folded(f) ==
            CASE f.res = ReaderError -> f
              [] f.res.tag = "Ok" -> [tc |-> f.tc, res |-> QSuccess(f.res.value)]
              [] OTHER ->
                    [tc |-> f.tc,
                     res |-> ValueNotFound(
                               error_path_msg(base_key, path, f.res.text, f.res.i))]
        Got(r) ==
            CASE r.res = ReaderError -> r
              [] r.res = None ->
                    [tc |-> r.tc,
                     res |-> ValueNotFound(error_path_msg(base_key, path, EmptyText, 0))]
              [] OTHER -> Folded(QueryFold(r.tc, rd, bad, r.res.v, path, 0))
    IN  Undone(Got(read(tc, rd, bad, base_key)))

\* TrackingCopy::query
query(tc, rd, bad, base_key, path) ==
    LET Folded(f) ==
            CASE f.res = ReaderError -> f
              [] f.res.tag = "Ok" -> [tc |-> f.tc, res |-> QSuccess(f.res.value)]
              [] OTHER ->
                    [tc |-> f.tc,
                     res |-> ValueNotFound(
                               error_path_msg(base_key, path, f.res.text, f.res.i))]
        Got(r) ==
            CASE r.res = ReaderError -> r
              [] r.res = None ->
                    [tc |-> r.tc,
                     res |-> ValueNotFound(error_path_msg(base_key, path, EmptyText, 0))]
              [] OTHER -> Folded(QueryFold(r.tc, rd, bad, r.res.v, path, 0))
    IN  Got(read(tc, rd, bad, base_key))

-----------------------------------------------------------------------------
(* Spec: a TrackingCopy over a backing reader                              *)

AccountKey == KeyAccount(0)
ContractKey == KeyHash(0)
StateURef == KeyURef(0, "READ_WRITE")
StateURefRead == KeyURef(0, "READ")
MissingKey == KeyHash(1)

\* The contract body alone is larger than DefaultMaxCacheSize.
ContractBytes == 20000

\* The backing state: an account that names a contract, which names a URef
\* holding an Int32 (the state of query_path).
GlobalState ==
    (AccountKey :> Account("c" :> ContractKey))
    @@ (ContractKey :> Contract(ContractBytes, "s" :> StateURef))
    @@ (normalize(StateURef) :> Int32(1))

RawKeys == {AccountKey, ContractKey, StateURef, StateURefRead, MissingKey}
\* The empty path, a name of the account, a name of the contract, the path of
\* query_path, a path that walks into a missing name and one that goes on
\* after the Int32.
Paths == {<<>>, <<"c">>, <<"s">>, <<"c", "s">>, <<"c", "c">>, <<"c", "s", "c">>}
WriteValues == {Int32(1), UInt256(1), Account("s" :> StateURefRead)}
Addends == {Int32(MaxI32), UInt256(1), NamedKey("c", MissingKey), StringValue(8)}
\* The keys on which the reader may fail during one call.
BadSets == {{}, {ContractKey}}

TC == [cache |-> Cache, ops |-> ops, fns |-> fns, calls |-> 0, reads |-> <<>>]

SetTC(tc) ==
    /\ SetCache(tc.cache)
    /\ ops' = tc.ops
    /\ fns' = tc.fns

Init ==
    /\ LET tc == NewTrackingCopy IN
       /\ max_cache_size = tc.cache.max_cache_size
       /\ meter = tc.cache.meter
       /\ current_cache_size = tc.cache.current_cache_size
       /\ reads_cached = tc.cache.reads_cached
       /\ muts_cached = tc.cache.muts_cached
       /\ ops = tc.ops
       /\ fns = tc.fns
    /\ reader = GlobalState
    /\ lastOp = NoCall
    /\ written = EmptyMap
    /\ insertOrder = [valid |-> TRUE, keys |-> <<>>]
    /\ touch = EmptyMap
    /\ other = NoOther
    /\ steps = 0

Touch(t, k, kind) ==
    MapPut(t, k, (IF k \in DOMAIN t THEN t[k] ELSE {}) \cup {kind})

RECURSIVE NoteReads(_, _)
NoteReads(t, log) ==
    IF log = <<>> THEN t
    ELSE NoteReads(Touch(t, Head(log).key, Head(log).kind), Tail(log))

OpBefore(key) ==
    IF normalize(key) \in DOMAIN ops THEN ops[normalize(key)] ELSE "None"

\* The call op(key, val) has run with outcome r: the TrackingCopy is r.tc.
\* A reader that fails on the keys of bad is told apart from one that does not
\* fail only when the call did hit the failure.
Done(r, op, key, val, bad) ==
    /\ bad # {} => r.res = ReaderError
    /\ SetTC(r.tc)
    /\ lastOp' = Call(op, key, val, r.res, r.tc.calls, OpBefore(key))
    /\ touch' = LET t == NoteReads(touch, r.tc.reads) IN
                CASE op = "get" -> Touch(t, key, "other")
                  [] op \in {"write", "add"} -> Touch(t, normalize(key), "other")
                  [] OTHER -> t
    /\ steps' = steps + 1
    /\ UNCHANGED <<reader, written, insertOrder, other>>

Get(key, bad) ==
    /\ steps < MaxSteps
    /\ Done(get(TC, reader, bad, key), "get", key, NoValue, bad)

Read(key, bad) ==
    /\ steps < MaxSteps
    /\ Done(read(TC, reader, bad, key), "read", key, NoValue, bad)

Write(key, v) ==
    /\ steps < MaxSteps
    /\ Done([tc |-> write(TC, key, v), res |-> None], "write", key, v, {})

Add(key, v, bad) ==
    /\ steps < MaxSteps
    /\ Done(add(TC, reader, bad, key, v), "add", key, v, bad)

Query(base_key, path, bad) ==
    /\ steps < MaxSteps
    /\ Done(query(TC, reader, bad, base_key, path), "query", base_key, path, bad)

Next ==
    \/ \E key \in RawKeys, bad \in BadSets : Get(key, bad)
    \/ \E key \in RawKeys, bad \in BadSets : Read(key, bad)
    \/ \E key \in RawKeys, v \in WriteValues : Write(key, v)
    \/ \E key \in RawKeys, v \in Addends, bad \in BadSets : Add(key, v, bad)
    \/ \E key \in RawKeys, path \in Paths, bad \in BadSets : Query(key, path, bad)

Spec == Init /\ [][Next]_vars

-----------------------------------------------------------------------------
(* CallsSpec: the overlays that MaxCalls calls lead to.  The claims checked *)
(* under it compare, in each of these states, what one more call returns   *)
(* and records for every key, path and behaviour of the reader.  The calls *)
(* left out of CallsNext (get, a second form of the URef, a read or an add *)
(* on which the reader fails) lead to no overlay that these do not reach.  *)

MaxCalls == 2

CallKeys == RawKeys \ {StateURef}

CallsNext ==
    /\ steps < MaxCalls
    /\ \/ \E key \in CallKeys : Read(key, {})
       \/ \E key \in CallKeys, v \in WriteValues : Write(key, v)
       \/ \E key \in CallKeys, v \in Addends : Add(key, v, {})
       \/ \E key \in CallKeys, path \in Paths, bad \in BadSets :
             Query(key, path, bad)

CallsSpec == Init /\ [][CallsNext]_vars

-----------------------------------------------------------------------------
(* AddKeysSpec: names added to the account and to the contract, as in      *)
(* tracking_copy_add_named_key, with a name that is bound twice.           *)

HolderKeys == {AccountKey, ContractKey}
NamedKeyAddends ==
    {NamedKey("a", MissingKey), NamedKey("a", ContractKey), NamedKey("b", MissingKey)}

AddKeysNext ==
    \/ \E key \in HolderKeys, v \in NamedKeyAddends : Add(key, v, {})
    \/ \E key \in HolderKeys : Read(key, {})

AddKeysSpec == Init /\ [][AddKeysNext]_vars

-----------------------------------------------------------------------------
(* EffectSpec: the calls of CallsSpec, and effect() taken at any point, up *)
(* to MaxEffects times in a row.  effect takes &self: it is no call that   *)
(* counts towards MaxCalls.                                                *)

MaxEffects == 2

Effect ==
    /\ lastOp.op = "effect" => lastOp.info < MaxEffects
    /\ lastOp' = Call("effect", NoKey, NoValue, effect(TC),
                      IF lastOp.op = "effect" THEN lastOp.info + 1 ELSE 1, "None")
    /\ UNCHANGED <<max_cache_size, meter, current_cache_size, reads_cached,
                   muts_cached, reader, ops, fns, written, insertOrder, touch,
                   steps, other>>

EffectNext ==
    \/ CallsNext
    \/ Effect

EffectSpec == Init /\ [][EffectNext]_vars

-----------------------------------------------------------------------------
(* AlgebraSpec: Transform's + and apply as pure functions.  Init draws two *)
(* transforms and a value; Compose applies t1 + t2 to the value, and t1    *)
(* and then t2 one after the other.                                        *)

AlgTransforms ==
    {Identity, TWrite(Int32(1)), TWrite(Account("a" :> StateURefRead)),
     AddInt32(1), AddInt32(MaxI32), AddUInt("AddUInt256", 1),
     AddUInt("AddUInt512", 1), AddKeys("a" :> MissingKey),
     AddKeys("b" :> ContractKey)}
AlgValues ==
    {Int32(1), UInt256(1), UInt512(1), Account("a" :> StateURefRead),
     StringValue(8)}

ApplyInTurn(t1, t2, v) ==
    LET Then(r) == IF r.ok THEN Apply(t2, r.value) ELSE r IN
    Then(Apply(t1, v))

AlgebraInit ==
    /\ LET tc == NewTrackingCopy IN
       /\ max_cache_size = tc.cache.max_cache_size
       /\ meter = tc.cache.meter
       /\ current_cache_size = tc.cache.current_cache_size
       /\ reads_cached = tc.cache.reads_cached
       /\ muts_cached = tc.cache.muts_cached
       /\ ops = tc.ops
       /\ fns = tc.fns
    /\ reader = GlobalState
    /\ \E t1 \in AlgTransforms, t2 \in AlgTransforms, v \in AlgValues :
         lastOp = Call("new", NoKey, [t1 |-> t1, t2 |-> t2, v |-> v], None, 0,
                       "None")
    /\ written = EmptyMap
    /\ insertOrder = [valid |-> TRUE, keys |-> <<>>]
    /\ touch = EmptyMap
    /\ other = NoOther
    /\ steps = 0

Compose ==
    /\ lastOp.op = "new"
    /\ lastOp' = Call("compose", NoKey, lastOp.val,
                      [composed |-> Apply(TransformAdd(lastOp.val.t1,
                                                       lastOp.val.t2),
                                          lastOp.val.v),
                       inTurn |-> ApplyInTurn(lastOp.val.t1, lastOp.val.t2,
                                              lastOp.val.v)],
                      0, "None")
    /\ steps' = steps + 1
    /\ UNCHANGED <<max_cache_size, meter, current_cache_size, reads_cached,
                   muts_cached, reader, ops, fns, written, insertOrder, touch,
                   other>>

AlgebraNext == Compose

AlgebraSpec == AlgebraInit /\ [][AlgebraNext]_vars

-----------------------------------------------------------------------------
(* Two TrackingCopy instances over one backing reader.  The first is the   *)
(* instance of the variables above, the second is other.tc.                *)

ReadCall(key) == [op |-> "read", key |-> key, val |-> NoValue]
WriteCall(key, v) == [op |-> "write", key |-> key, val |-> v]
AddCall(key, v) == [op |-> "add", key |-> key, val |-> v]
QueryCall(key, path) == [op |-> "query", key |-> key, val |-> path]

\* The call c made on the TrackingCopy tc over the reader rd, which does not fail.
ApplyCall(tc, rd, c) ==
    CASE c.op = "read" -> read(tc, rd, {}, c.key)
      [] c.op = "write" -> [tc |-> write(tc, c.key, c.val), res |-> None]
      [] c.op = "add" -> add(tc, rd, {}, c.key, c.val)
      [] c.op = "query" -> query(tc, rd, {}, c.key, c.val)

\* The fields of a TrackingCopy, without the observations of its last call.
Fields(tc) == [tc EXCEPT !.calls = 0, !.reads = <<>>]

-----------------------------------------------------------------------------
(* PairSpec: the second instance has a smaller cache than the 16 KiB of    *)
(* TrackingCopy::new, so that it evicts what the first keeps; every call   *)
(* is made on both.                                                        *)

PairCacheSizes == {0, 100}
PairCalls ==
    {ReadCall(key) : key \in CallKeys}
    \cup {WriteCall(key, v) : key \in CallKeys, v \in WriteValues}
    \cup {AddCall(key, v) : key \in CallKeys, v \in Addends}
    \cup {QueryCall(key, path) : key \in CallKeys, path \in Paths}

PairInit ==
    /\ LET tc == NewTrackingCopy IN
       /\ max_cache_size = tc.cache.max_cache_size
       /\ meter = tc.cache.meter
       /\ current_cache_size = tc.cache.current_cache_size
       /\ reads_cached = tc.cache.reads_cached
       /\ muts_cached = tc.cache.muts_cached
       /\ ops = tc.ops
       /\ fns = tc.fns
    /\ reader = GlobalState
    /\ lastOp = NoCall
    /\ written = EmptyMap
    /\ insertOrder = [valid |-> TRUE, keys |-> <<>>]
    /\ touch = EmptyMap
    /\ \E size \in PairCacheSizes :
         other = [tag |-> "Pair",
                  tc |-> [NewTrackingCopy EXCEPT
                            !.cache = NewCache(size, HeapSizeMeter)],
                  res |-> None, calls |-> 0]
    /\ steps = 0

\* The call c made on both instances.
Both(c) ==
    LET Made(r, s) ==
            /\ SetTC(r.tc)
            /\ lastOp' = Call(c.op, c.key, c.val, r.res, r.tc.calls, OpBefore(c.key))
            /\ other' = [other EXCEPT !.tc = Fields(s.tc), !.res = s.res,
                                      !.calls = s.tc.calls]
    IN
    /\ steps < MaxCalls
    /\ Made(ApplyCall(TC, reader, c), ApplyCall(other.tc, reader, c))
    /\ steps' = steps + 1
    /\ UNCHANGED <<reader, written, insertOrder, touch>>

PairNext == \E c \in PairCalls : Both(c)

PairSpec == PairInit /\ [][PairNext]_vars

-----------------------------------------------------------------------------
(* InterleavedSpec: two instances built by TrackingCopy::new over the same *)
(* reader, called in any order.  other.mine and other.theirs are the calls *)
(* made so far on the first and on the second, other.last is the instance  *)
(* called last; lastOp is the last call on the first instance.             *)

TwoKeys == {AccountKey, StateURefRead}
TwoCalls ==
    {ReadCall(key) : key \in TwoKeys}
    \cup {WriteCall(key, Int32(1)) : key \in TwoKeys}
    \cup {AddCall(key, v) : key \in TwoKeys,
                            v \in {Int32(MaxI32), NamedKey("c", MissingKey)}}
    \cup {QueryCall(key, <<"c", "s">>) : key \in TwoKeys}

InterleavedInit ==
    /\ LET tc == NewTrackingCopy IN
       /\ max_cache_size = tc.cache.max_cache_size
       /\ meter = tc.cache.meter
       /\ current_cache_size = tc.cache.current_cache_size
       /\ reads_cached = tc.cache.reads_cached
       /\ muts_cached = tc.cache.muts_cached
       /\ ops = tc.ops
       /\ fns = tc.fns
    /\ reader = GlobalState
    /\ lastOp = NoCall
    /\ written = EmptyMap
    /\ insertOrder = [valid |-> TRUE, keys |-> <<>>]
    /\ touch = EmptyMap
    /\ other = [tag |-> "Two", tc |-> NewTrackingCopy, res |-> None,
                mine |-> <<>>, theirs |-> <<>>, last |-> 0]
    /\ steps = 0

\* The call c on the first instance.
First(c) ==
    LET Made(r) ==
            /\ SetTC(r.tc)
            /\ lastOp' = Call(c.op, c.key, c.val, r.res, r.tc.calls, OpBefore(c.key))
    IN
    /\ steps < MaxCalls
    /\ Made(ApplyCall(TC, reader, c))
    /\ other' = [other EXCEPT !.mine = Append(@, c), !.last = 1]
    /\ steps' = steps + 1
    /\ UNCHANGED <<reader, written, insertOrder, touch>>

\* The second instance with the cache of the first in place of its own.
Second_SharedCache(c) ==
    LET Made(s) ==
            other' = [other EXCEPT !.tc = Fields(s.tc), !.res = s.res,
                                   !.theirs = Append(@, c), !.last = 2]
    IN
    /\ steps < MaxCalls
    /\ Made(ApplyCall([other.tc EXCEPT !.cache = Cache], reader, c))
    /\ steps' = steps + 1
    /\ UNCHANGED <<max_cache_size, meter, current_cache_size, reads_cached,
                   muts_cached, reader, ops, fns, lastOp, written, insertOrder,
                   touch>>

\* The call c on the second instance.
Second(c) ==
    LET Made(s) ==
            other' = [other EXCEPT !.tc = Fields(s.tc), !.res = s.res,
                                   !.theirs = Append(@, c), !.last = 2]
    IN
    /\ steps < MaxCalls
    /\ Made(ApplyCall(other.tc, reader, c))
    /\ steps' = steps + 1
    /\ UNCHANGED <<max_cache_size, meter, current_cache_size, reads_cached,
                   muts_cached, reader, ops, fns, lastOp, written, insertOrder,
                   touch>>

InterleavedNext ==
    \/ \E c \in TwoCalls : First(c)
    \/ \E c \in TwoCalls : Second(c)

InterleavedSpec == InterleavedInit /\ [][InterleavedNext]_vars

-----------------------------------------------------------------------------
(* QuerySpec: queries over what writes and added names leave in the        *)
(* overlay: a cell that holds an account naming the cell, a key that lost  *)
(* its account, a name bound to a key without a value.                     *)

QueryNext ==
    /\ steps < MaxCalls
    /\ \/ \E key \in CallKeys, v \in WriteValues : Write(key, v)
       \/ \E key \in CallKeys : Add(key, NamedKey("c", MissingKey), {})
       \/ \E key \in CallKeys, path \in Paths, bad \in BadSets :
             Query(key, path, bad)

QuerySpec == Init /\ [][QueryNext]_vars

-----------------------------------------------------------------------------
(* CountingSpec: a TrackingCopy over the reader of the tests, CountingDb   *)
(* built by new_init: it returns its value for every key it is asked for   *)
(* and never fails.  The calls are the public methods, get included.       *)

CountingDb(v) == [k \in RawKeys |-> v]

CountingInit ==
    /\ LET tc == NewTrackingCopy IN
       /\ max_cache_size = tc.cache.max_cache_size
       /\ meter = tc.cache.meter
       /\ current_cache_size = tc.cache.current_cache_size
       /\ reads_cached = tc.cache.reads_cached
       /\ muts_cached = tc.cache.muts_cached
       /\ ops = tc.ops
       /\ fns = tc.fns
    /\ reader = CountingDb(Int32(1))
    /\ lastOp = NoCall
    /\ written = EmptyMap
    /\ insertOrder = [valid |-> TRUE, keys |-> <<>>]
    /\ touch = EmptyMap
    /\ other = NoOther
    /\ steps = 0

CountingNext ==
    /\ steps < MaxCalls
    /\ \/ \E key \in RawKeys : Get(key, {})
       \/ \E key \in RawKeys : Read(key, {})
       \/ \E key \in RawKeys, v \in WriteValues : Write(key, v)
       \/ \E key \in RawKeys, v \in Addends : Add(key, v, {})
       \/ \E key \in RawKeys, path \in Paths : Query(key, path, {})

CountingSpec == CountingInit /\ [][CountingNext]_vars

-----------------------------------------------------------------------------
(* LoopSpec: insert_read from any state of the cache.  Init draws the      *)
(* bound, the meter, the entries of the read tier and the counter, which   *)
(* is the weight of the entries or more (with less, the subtraction of the *)
(* loop is not defined); InsertReadFrom makes one call.                    *)

MaxEntries == 2
MaxCounter == 4
MaxIterations == 6

\* The read tiers of up to n entries with different keys.
RECURSIVE ReadTiers(_)
ReadTiers(n) ==
    IF n = 0 THEN {<<>>}
    ELSE LET shorter == ReadTiers(n - 1) IN
         shorter \cup
         {Append(s, Entry(k, v)) :
            s \in {t \in shorter : Len(t) = n - 1},
            k \in CacheKeys, v \in CacheValues}

LoopInit ==
    /\ max_cache_size \in 0..MaxCacheSize
    /\ meter \in CacheMeters
    /\ reads_cached \in {s \in ReadTiers(MaxEntries) :
                           \A i, j \in 1..Len(s) : s[i].key = s[j].key => i = j}
    /\ current_cache_size \in SumWeights(meter, reads_cached)..MaxCounter
    /\ muts_cached = EmptyMap
    /\ reader = EmptyMap
    /\ ops = EmptyMap
    /\ fns = EmptyMap
    /\ lastOp = NoCall
    /\ written = EmptyMap
    /\ insertOrder = [valid |-> TRUE, keys |-> <<>>]
    /\ touch = EmptyMap
    /\ other = NoOther
    /\ steps = 0

InsertReadFrom(key, value) ==
    LET Ran(d, run) ==
            lastOp' = Call("insert_read", key, value,
                           [entries |-> Len(d.reads_cached),
                            iterations |-> run.iterations,
                            done |-> run.done,
                            left |-> run.cache],
                           Len(d.reads_cached) - Len(run.cache.reads_cached),
                           "None")
        Inserted(d) == Ran(d, EvictRun(d, 0, MaxIterations))
    IN
    /\ steps = 0
    /\ SetCache(insert_read(Cache, key, value))
    /\ Inserted([Cache EXCEPT
                   !.reads_cached = LhmInsert(@, key, value),
                   !.current_cache_size = @ + Measure(meter, key, value)])
    /\ steps' = steps + 1
    /\ UNCHANGED <<reader, ops, fns, written, insertOrder, touch, other>>

LoopNext == \E key \in CacheKeys, value \in CacheValues : InsertReadFrom(key, value)

LoopSpec == LoopInit /\ [][LoopNext]_vars

-----------------------------------------------------------------------------
(* Claims about the TrackingCopyCache (checked under CacheSpec)            *)

\* The last n elements of s (all of s when it has fewer).
LastN(s, n) == SubSeq(s, Len(s) - Min(n, Len(s)) + 1, Len(s))

\* C2: a key stored by insert_write is never removed: it stays in the mutation
\* tier and get returns the value of the most recent insert_write of that key,
\* whatever insert_read calls and evictions came after.
C2_WritesNotInvalidated ==
    /\ \A k \in DOMAIN written :
          /\ k \in DOMAIN muts_cached
          /\ cache_get(Cache, k).value = Some(written[k])
    /\ (lastOp.op = "get" /\ lastOp.key \in DOMAIN written)
          => lastOp.res = Some(written[lastOp.key])

\* A write is held, an insert_read has overwritten the read-tier entry of the
\* same key with another value, and a later get of the key returned the write.
C2_Witness ==
    /\ lastOp.op = "get"
    /\ lastOp.key \in DOMAIN written
    /\ lastOp.res = Some(written[lastOp.key])
    /\ LhmContains(reads_cached, lastOp.key)
    /\ reads_cached[LhmIndex(reads_cached, lastOp.key)].value # written[lastOp.key]

\* C3: after every insert_read the weights of the entries held in the read
\* tier sum to at most max_cache_size.
C3_ReadTierWithinBound ==
    SumWeights(meter, reads_cached) <= max_cache_size

\* An insert_read has evicted and left the read tier exactly full.
C3_Witness ==
    /\ lastOp.op = "insert_read"
    /\ lastOp.info >= 1
    /\ max_cache_size > 0
    /\ SumWeights(meter, reads_cached) = max_cache_size

\* C4 as stated: the entry insert_read has just inserted is in the read tier.
C4_JustInsertedSurvives ==
    lastOp.op = "insert_read" => LhmContains(reads_cached, lastOp.key)

\* The weight the counter carries beyond the entries other than k.
Surplus(k) ==
    current_cache_size - SumWeights(meter, LhmRemove(reads_cached, k))

\* C4, amended: insert_read(k, v) leaves k in the read tier exactly when
\* meter(k, v) plus the surplus of the counter over the weight of the other
\* entries held before the call is at most max_cache_size; an entry whose
\* weight alone exceeds max_cache_size is evicted by its own insertion.
C4_SurvivesIffFits ==
    [][lastOp'.op = "insert_read" =>
          (LhmContains(reads_cached', lastOp'.key)
             <=> Measure(meter, lastOp'.key, lastOp'.val) + Surplus(lastOp'.key)
                   <= max_cache_size)]_vars

\* An entry heavier than max_cache_size was inserted and the read tier is empty.
C4_Witness ==
    /\ lastOp.op = "insert_read"
    /\ Measure(meter, lastOp.key, lastOp.val) > max_cache_size
    /\ lastOp.info >= 1
    /\ reads_cached = <<>>

\* C5: with the count meter, after insert_read calls of distinct keys and no
\* get, the read tier holds exactly the max_cache_size most recently inserted
\* keys, in insertion order.
C5_CountMeterKeepsMostRecent ==
    (meter.kind = "Count" /\ insertOrder.valid)
       => ReadKeys(reads_cached) = LastN(insertOrder.keys, max_cache_size)

\* max = 2 and k1, k2, k3 inserted: k1 is gone, k2 and k3 are held.
C5_Witness ==
    /\ meter.kind = "Count"
    /\ max_cache_size = 2
    /\ insertOrder.valid
    /\ insertOrder.keys = <<KeyHash(1), KeyHash(2), KeyHash(3)>>
    /\ ReadKeys(reads_cached) = <<KeyHash(2), KeyHash(3)>>
    /\ ~LhmContains(reads_cached, KeyHash(1))

\* C6: a get that hits the read tier moves the entry to the most recent
\* position and leaves the others in their order, so that when the next call is
\* an insert_read of a new key that evicts, the entry evicted first is another
\* one: the key just read is still held unless every older entry went too.
C6_GetRefreshes ==
    [][/\ (lastOp'.op = "get" /\ lastOp'.info > 0) =>
             reads_cached' = Append(LhmRemove(reads_cached, lastOp'.key),
                                    reads_cached[lastOp'.info])
       /\ (/\ lastOp.op = "get" /\ lastOp.info > 0
           /\ Len(reads_cached) >= 2
           /\ lastOp'.op = "insert_read"
           /\ ~LhmContains(reads_cached, lastOp'.key)
           /\ lastOp'.info >= 1) =>
             /\ ~LhmContains(reads_cached', reads_cached[1].key)
             /\ reads_cached[1].key # lastOp.key
             /\ (lastOp'.info < Len(reads_cached)
                   => LhmContains(reads_cached', lastOp.key))]_vars

\* Count meter, max = 2: the get found its key at the front of a full read
\* tier and the key is now the most recent of the two.
C6_Witness ==
    /\ meter.kind = "Count"
    /\ max_cache_size = 2
    /\ lastOp.op = "get"
    /\ lastOp.info = 1
    /\ Len(reads_cached) = 2
    /\ reads_cached[2].key = lastOp.key

-----------------------------------------------------------------------------
(* Claims about the TrackingCopy (checked under Spec)                      *)

\* C1: after any sequence of get, read, write, add and query calls, failed
\* ones included, ops and fns have the same keys.
C1_OpsAndFnsSameKeys ==
    DOMAIN ops = DOMAIN fns

\* A query has recorded the read of its base key and then stopped on an
\* error of the reader.
C1_Witness ==
    /\ lastOp.op = "query"
    /\ lastOp.res = ReaderError
    /\ lastOp.before = "None"
    /\ normalize(lastOp.key) \in DOMAIN ops
    /\ normalize(lastOp.key) \in DOMAIN fns

\* The value the overlay itself returns for k.
OverlayValue(k) == get(TC, reader, {}, k).res

\* C7: for every key of fns that the backing reader holds, the recorded
\* transform applies to the reader's value without a type mismatch and yields
\* the value the overlay returns for the key.
C7_TransformsApplyToReaderValue ==
    \A k \in DOMAIN fns :
        k \in DOMAIN reader =>
            LET a == Apply(fns[k], reader[k]) IN
            /\ a.ok
            /\ Some(a.value) = OverlayValue(k)

\* A successful add on a key of the reader that had been written before: the
\* transform is the write composed with the add.
C7_Witness ==
    /\ lastOp.op = "add"
    /\ lastOp.res = Success
    /\ lastOp.before = "Write"
    /\ normalize(lastOp.key) \in DOMAIN reader
    /\ normalize(lastOp.key) \in DOMAIN fns
    /\ OverlayValue(normalize(lastOp.key)) # Some(reader[normalize(lastOp.key)])

\* C8: an add that returns KeyNotFound or TypeMismatch leaves ops, fns and
\* the mutation tier as they were.
C8_FailedAddChangesNothing ==
    [][(lastOp'.op = "add" /\ lastOp'.res.tag \in {"KeyNotFound", "TypeMismatch"})
          => (ops' = ops /\ fns' = fns /\ muts_cached' = muts_cached)]_vars

\* The Int32 added to the Account on a fresh overlay: TypeMismatch, logs empty.
C8_Witness ==
    /\ lastOp.op = "add"
    /\ lastOp.res.tag = "TypeMismatch"
    /\ lastOp.key = AccountKey
    /\ lastOp.val.tag = "Int32"
    /\ ops = EmptyMap
    /\ fns = EmptyMap
    /\ muts_cached = EmptyMap
    /\ reads_cached # <<>>

\* C9: after write(k, v), whatever was recorded for k before, fns has
\* Write(v) and ops has Write at the normalized key, and neither map has an
\* entry under another key that normalizes to it.
C9_WriteAbsorbs ==
    lastOp.op = "write" =>
        LET k == normalize(lastOp.key) IN
        /\ k \in DOMAIN fns /\ fns[k] = TWrite(lastOp.val)
        /\ k \in DOMAIN ops /\ ops[k] = OpWrite
        /\ \A k2 \in (DOMAIN ops) \cup (DOMAIN fns) : normalize(k2) = k => k2 = k

\* The write came after a successful add on the key, given with access rights.
C9_Witness ==
    /\ lastOp.op = "write"
    /\ lastOp.before = "Add"
    /\ lastOp.key # normalize(lastOp.key)
    /\ fns[normalize(lastOp.key)] = TWrite(lastOp.val)

\* C10: a key on which the only calls so far were reads that found a value
\* has ops Read and fns Identity.
C10_OnlyReadIsIdentity ==
    \A k \in DOMAIN touch :
        touch[k] = {"read_hit"} =>
            /\ k \in DOMAIN ops /\ ops[k] = OpRead
            /\ k \in DOMAIN fns /\ fns[k] = Identity

\* The key has been read a second time, from the cache.
C10_Witness ==
    /\ lastOp.op = "read"
    /\ lastOp.before = "Read"
    /\ lastOp.info = 0
    /\ lastOp.res.tag = "Some"
    /\ touch[normalize(lastOp.key)] = {"read_hit"}

\* C11: a successful add of Int32 x on a key whose value in the reader is
\* Int32 v0 and which was not written (its transform so far is absent,
\* Identity or AddInt32(s), s the sum of the addends so far, 0 when there
\* were none) leaves fns with AddInt32(s + x) and the mutation tier with
\* Int32(v0 + s + x), the sums taken in 32-bit two's complement.
C11_AddInt32Accumulates ==
    [][\A k \in DOMAIN reader :
          (/\ lastOp'.op = "add"
           /\ lastOp'.res = Success
           /\ normalize(lastOp'.key) = k
           /\ lastOp'.val.tag = "Int32"
           /\ reader[k].tag = "Int32"
           /\ (k \in DOMAIN fns => fns[k].tag \in {"Identity", "AddInt32"}))
          => LET s == IF k \in DOMAIN fns /\ fns[k].tag = "AddInt32"
                      THEN fns[k].n ELSE 0
                 sum == WrappingAdd32(s, lastOp'.val.n)
             IN  /\ fns'[k] = AddInt32(sum)
                 /\ muts_cached'[k] = Int32(WrappingAdd32(reader[k].n, sum))]_vars

\* The second add of MaxI32 to the cell that holds 1: the sum of the addends
\* has overflowed to -2 and the value is -1.
C11_Witness ==
    /\ lastOp.op = "add"
    /\ lastOp.res = Success
    /\ lastOp.before = "Add"
    /\ lastOp.val = Int32(MaxI32)
    /\ fns[normalize(StateURef)] = AddInt32(-2)
    /\ muts_cached[normalize(StateURef)] = Int32(-1)

\* C12: a successful add of Int32 x on a key for which only reads were
\* recorded leaves fns with AddInt32(x) and ops with Write.
C12_ReadThenAdd ==
    (/\ lastOp.op = "add"
     /\ lastOp.res = Success
     /\ lastOp.before = "Read"
     /\ lastOp.val.tag = "Int32")
    => /\ fns[normalize(lastOp.key)] = AddInt32(lastOp.val.n)
       /\ ops[normalize(lastOp.key)] = OpWrite

\* The Int32 cell was read and then added to.
C12_Witness ==
    /\ lastOp.op = "add"
    /\ lastOp.res = Success
    /\ lastOp.before = "Read"
    /\ lastOp.val.tag = "Int32"
    /\ touch[normalize(lastOp.key)] = {"read_hit", "other"}
    /\ reader[normalize(lastOp.key)].tag = "Int32"

\* C13 as stated: a key that was read and then successfully added to has
\* ops Add.
C13_ReadThenAddIsAdd ==
    (lastOp.op = "add" /\ lastOp.res = Success /\ lastOp.before = "Read")
    => ops[normalize(lastOp.key)] = OpAdd

\* The join of the op recorded before (a) with the op of the call (b): two
\* reads are a read, two adds are an add, every other pair is a write.
JoinTable(a, b) ==
    CASE a = "None" -> b
      [] a = "Read" /\ b = "Read" -> "Read"
      [] a = "Add" /\ b = "Add" -> "Add"
      [] a = "Read" /\ b = "Add" -> "Write"
      [] a = "Add" /\ b = "Read" -> "Write"
      [] a = "Write" \/ b = "Write" -> "Write"

\* The op a call records: Read by a read that finds a value, Write by a
\* write, Add by a successful add, none otherwise.
RecordedOp(call) ==
    CASE call.op = "read" /\ call.res.tag = "Some" -> "Read"
      [] call.op = "write" -> "Write"
      [] call.op = "add" /\ call.res = Success -> "Add"
      [] OTHER -> "None"

\* C13: after a read, write or add that records an op for k, ops[k] is the
\* join of what was recorded before with that op, where Read joined with Add
\* is Write.
C13_OpsJoin ==
    (lastOp.op \in {"read", "write", "add"} /\ RecordedOp(lastOp) # "None")
    => ops[normalize(lastOp.key)] = JoinTable(lastOp.before, RecordedOp(lastOp))

\* A name was added to the account after it had been read: ops has Write.
C13_Witness ==
    /\ lastOp.op = "add"
    /\ lastOp.res = Success
    /\ lastOp.before = "Read"
    /\ lastOp.val.tag = "NamedKey"
    /\ ops[normalize(lastOp.key)] = OpWrite

\* The step is the second of two consecutive reads of one key on a fresh
\* overlay, the first of which found a value and the second of which the
\* reader did not fail.
SecondRead ==
    /\ steps = 1
    /\ lastOp.op = "read"
    /\ lastOp.res.tag = "Some"
    /\ lastOp'.op = "read"
    /\ normalize(lastOp'.key) = normalize(lastOp.key)
    /\ lastOp'.res # ReaderError

\* C14 as stated: the second of two consecutive reads on a fresh overlay
\* returns the same value without a call of the reader.
C14_SecondReadFromCache ==
    [][SecondRead => (lastOp'.res = lastOp.res /\ lastOp'.info = 0)]_vars

\* C14: a read calls the reader, once, exactly when the key is in neither
\* tier of the cache; the second of two consecutive reads on a fresh overlay
\* returns the same value, from the cache exactly when the entry of the key
\* weighs at most max_cache_size (a heavier one was evicted by its own
\* insertion and is read from the reader again).
C14_ReaderOnlyOnCacheMiss ==
    [][lastOp'.op = "read" =>
          LET k == normalize(lastOp'.key) IN
          /\ lastOp'.info \in {0, 1}
          /\ lastOp'.info = 0
                <=> (k \in DOMAIN muts_cached \/ LhmContains(reads_cached, k))
          /\ SecondRead =>
                /\ lastOp'.res = lastOp.res
                /\ lastOp'.info = 0
                      <=> Measure(meter, k, reader[k]) <= max_cache_size]_vars

\* The account has been read twice on a fresh overlay: one call of the reader.
C14_Witness ==
    /\ steps = 2
    /\ lastOp.op = "read"
    /\ lastOp.key = AccountKey
    /\ lastOp.before = "Read"
    /\ lastOp.info = 0
    /\ lastOp.res = Some(reader[AccountKey])
    /\ DOMAIN touch = {AccountKey}
    /\ touch[AccountKey] = {"read_hit"}

\* C15 (under AddKeysSpec): a successful add of NamedKey(name, key) on a key
\* that holds an Account or a Contract and whose transform so far is absent,
\* Identity or AddKeys(m) leaves fns with AddKeys(m with name bound to key),
\* the new binding replacing one m had for the name; ops and fns have no
\* other entry that normalizes to the key.
C15_AddKeysAccumulate ==
    [][\A k \in DOMAIN reader :
          (/\ lastOp'.op = "add"
           /\ lastOp'.res = Success
           /\ normalize(lastOp'.key) = k
           /\ lastOp'.val.tag = "NamedKey"
           /\ reader[k].tag \in {"Account", "Contract"}
           /\ (k \in DOMAIN fns => fns[k].tag \in {"Identity", "AddKeys"}))
          => LET m == IF k \in DOMAIN fns /\ fns[k].tag = "AddKeys"
                      THEN fns[k].urefs ELSE EmptyMap
                 bound == (DOMAIN m) \cup {lastOp'.val.name}
             IN  /\ fns'[k] = AddKeys([n \in bound |->
                                        IF n = lastOp'.val.name
                                        THEN lastOp'.val.key ELSE m[n]])
                 /\ \A k2 \in (DOMAIN ops') \cup (DOMAIN fns') :
                        normalize(k2) = k => k2 = k]_vars

\* Three adds on the account have left both names bound, the last of them
\* binding "a" to the contract.
C15_Witness ==
    /\ steps = 3
    /\ lastOp.op = "add"
    /\ lastOp.res = Success
    /\ lastOp.key = AccountKey
    /\ lastOp.val = NamedKey("a", ContractKey)
    /\ ops = (AccountKey :> OpAdd)
    /\ fns = (AccountKey :> AddKeys(("a" :> ContractKey) @@ ("b" :> MissingKey)))
    /\ muts_cached[AccountKey].urefs["a"] = ContractKey

\* C16 (under CallsSpec): from any state, for any key and any behaviour of the reader, query
\* with the empty path returns Success(v) exactly when read returns Some(v),
\* ValueNotFound exactly when read returns None and the reader's error exactly
\* when read returns it, and leaves the overlay as read does.
C16_QueryEmptyPathIsRead ==
    \A key \in RawKeys, bad \in BadSets :
        LET q == query(TC, reader, bad, key, <<>>)
            r == read(TC, reader, bad, key)
        IN  /\ q.tc.cache = r.tc.cache
            /\ q.tc.ops = r.tc.ops
            /\ q.tc.fns = r.tc.fns
            /\ q.tc.calls = r.tc.calls
            /\ r.res.tag = "Some" <=> q.res.tag = "Success"
            /\ r.res.tag = "Some" => q.res = QSuccess(r.res.v)
            /\ r.res = None <=> q.res.tag = "ValueNotFound"
            /\ r.res = ReaderError <=> q.res = ReaderError

\* A query with the empty path on a key nothing was recorded for.
C16_Witness ==
    /\ lastOp.op = "query"
    /\ lastOp.val = <<>>
    /\ lastOp.res.tag = "Success"
    /\ lastOp.before = "None"
    /\ ops[normalize(lastOp.key)] = OpRead
    /\ fns[normalize(lastOp.key)] = Identity

\* What the overlay returns for k when the reader fails on the keys of bad.
OverlayValueWith(bad, k) == get(TC, reader, bad, k).res

\* The walk along path from the value v: the keys whose values it obtains,
\* added to keys, and where it ends: Some(value) when every name was bound
\* to a key the overlay could read, the reader's error when the reader
\* failed, None otherwise.
RECURSIVE Walk(_, _, _, _)
Walk(keys, v, path, bad) ==
    IF path = <<>> THEN [keys |-> keys, end |-> Some(v)]
    ELSE IF v.tag \notin {"Account", "Contract"} THEN [keys |-> keys, end |-> None]
    ELSE IF Head(path) \notin DOMAIN v.urefs THEN [keys |-> keys, end |-> None]
    ELSE LET k == normalize(v.urefs[Head(path)])
             found == OverlayValueWith(bad, k)
         IN  IF found.tag = "Some"
             THEN Walk(keys \cup {k}, found.v, Tail(path), bad)
             ELSE [keys |-> keys, end |-> found]

\* The walk of query(key, path): the base key first.
WalkFrom(key, path, bad) ==
    LET base == OverlayValueWith(bad, normalize(key)) IN
    IF base.tag = "Some"
    THEN Walk({normalize(key)}, base.v, path, bad)
    ELSE [keys |-> {}, end |-> base]

\* C17 (under CallsSpec): from any state, when the base key holds an Account or a Contract and
\* every name of the path is bound, in the value reached so far, to a key the
\* overlay can read, query returns Success with the value at the last key.
C17_QueryFollowsPath ==
    \A key \in RawKeys, path \in Paths :
        LET base == OverlayValue(normalize(key))
            w == WalkFrom(key, path, {})
        IN  (/\ base.tag = "Some"
             /\ base.v.tag \in {"Account", "Contract"}
             /\ w.end.tag = "Some")
            => query(TC, reader, {}, key, path).res = QSuccess(w.end.v)

\* The path of query_path, after the cell it leads to had been written.
C17_Witness ==
    /\ lastOp.op = "query"
    /\ lastOp.key = AccountKey
    /\ lastOp.val = <<"c", "s">>
    /\ lastOp.res = QSuccess(UInt256(1))

\* C18 (under CallsSpec): from any state, after a query during which the
\* reader does not fail, the keys whose values it obtained (the base key and
\* the keys reached through the names, up to the step where it stopped) have
\* in ops the join of what was recorded before with Read, Read itself when
\* there was nothing, and in fns the transform recorded before, Identity when
\* there was none; every other entry of ops and fns is as before.
C18_QueryRecordsItsReads ==
    \A key \in RawKeys, path \in Paths :
        LET q == query(TC, reader, {}, key, path).tc
            ks == WalkFrom(key, path, {}).keys
        IN  /\ DOMAIN q.ops = (DOMAIN ops) \cup ks
            /\ DOMAIN q.fns = (DOMAIN fns) \cup ks
            /\ \A k \in ks :
                  /\ q.ops[k] = JoinTable(IF k \in DOMAIN ops THEN ops[k] ELSE "None",
                                          "Read")
                  /\ q.fns[k] = IF k \in DOMAIN fns THEN fns[k] ELSE Identity
            /\ \A k \in (DOMAIN ops) \ ks : q.ops[k] = ops[k]
            /\ \A k \in (DOMAIN fns) \ ks : q.fns[k] = fns[k]

\* A name had been added to the contract; the query from the contract to its
\* cell then joined Read into the Add of the contract and left Read and
\* Identity for the cell.
C18_Witness ==
    /\ lastOp.op = "query"
    /\ lastOp.key = ContractKey
    /\ lastOp.val = <<"s">>
    /\ lastOp.res.tag = "Success"
    /\ lastOp.before = "Add"
    /\ ops = (ContractKey :> OpWrite) @@ (normalize(StateURef) :> OpRead)
    /\ fns[ContractKey].tag = "AddKeys"
    /\ fns[normalize(StateURef)] = Identity

\* C19 (under CallsSpec): from any state, for two different keys that
\* normalize to the same key, read, write and add through the one return and
\* leave what they do through the other, a value written through the one is
\* what a read through the other returns, and ops, fns and the mutation tier
\* have entries under normalized keys only.
C19_NormalizedKeysShareEntry ==
    /\ \A k \in (DOMAIN ops) \cup (DOMAIN fns) \cup (DOMAIN muts_cached) :
          normalize(k) = k
    /\ \A k1 \in RawKeys, k2 \in RawKeys :
          (k1 # k2 /\ normalize(k1) = normalize(k2)) =>
              /\ \A bad \in BadSets :
                    read(TC, reader, bad, k1) = read(TC, reader, bad, k2)
              /\ \A v \in WriteValues :
                    /\ write(TC, k1, v) = write(TC, k2, v)
                    /\ read(write(TC, k1, v), reader, {}, k2).res = Some(v)
              /\ \A v \in Addends, bad \in BadSets :
                    add(TC, reader, bad, k1, v) = add(TC, reader, bad, k2, v)

\* A read through the READ form of the URef returns what was written to the
\* cell; the one entry is under the normalized key.
C19_Witness ==
    /\ lastOp.op = "read"
    /\ lastOp.key = StateURefRead
    /\ lastOp.before = "Write"
    /\ lastOp.res = Some(UInt256(1))
    /\ DOMAIN ops = {normalize(StateURef)}
    /\ DOMAIN muts_cached = {normalize(StateURef)}

\* The reader is called for k, and fails: k is one of bad and in neither tier.
ReaderFailsOn(bad, k) ==
    /\ k \in bad
    /\ k \notin DOMAIN muts_cached
    /\ ~ LhmContains(reads_cached, k)

\* C20 (under CallsSpec): from any state and for any reader that fails on
\* some keys, a read or an add for which the reader fails returns the
\* reader's error and leaves ops, fns and the cache as they were; a query returns the reader's error exactly when the reader
\* fails on the base key or on a key of the walk, and then the failing read
\* is its last one: the reads before it found a value and are the only ones
\* recorded.
C20_ReaderErrorPropagates ==
    \A key \in RawKeys, bad \in BadSets \ {{}} :
        /\ ReaderFailsOn(bad, normalize(key)) =>
              /\ LET r == read(TC, reader, bad, key) IN
                  /\ r.res = ReaderError
                  /\ r.tc.cache = Cache /\ r.tc.ops = ops /\ r.tc.fns = fns
              /\ \A v \in Addends :
                    LET a == add(TC, reader, bad, key, v) IN
                    /\ a.res = ReaderError
                    /\ a.tc.cache = Cache /\ a.tc.ops = ops /\ a.tc.fns = fns
        /\ \A path \in Paths :
              LET q == query(TC, reader, bad, key, path)
                  n == Len(q.tc.reads)
              IN  /\ q.res = ReaderError <=> WalkFrom(key, path, bad).end = ReaderError
                  /\ q.res = ReaderError =>
                        /\ n >= 1
                        /\ q.tc.reads[n].key \in bad
                        /\ \A i \in 1..(n - 1) : q.tc.reads[i].kind = "read_hit"
                        /\ DOMAIN q.tc.ops
                             = (DOMAIN ops) \cup {q.tc.reads[i].key : i \in 1..(n - 1)}
                        /\ q.tc.calls <= n

\* The query of query_path on a fresh overlay with a reader that fails on the
\* contract: the account was read and recorded, the walk stopped there.
C20_Witness ==
    /\ steps = 1
    /\ lastOp.op = "query"
    /\ lastOp.key = AccountKey
    /\ lastOp.val = <<"c", "s">>
    /\ lastOp.res = ReaderError
    /\ lastOp.info = 2
    /\ ops = (AccountKey :> OpRead)
    /\ muts_cached = EmptyMap

\* C21: effect() returns exactly the ops and the transforms recorded so far
\* and changes nothing: ops, fns, the cache and the reader are the same after
\* it, and an effect() that follows an effect() returns the same effect.
C21_EffectIsPure ==
    [][lastOp'.op = "effect" =>
         /\ lastOp'.res = [ops |-> ops, transforms |-> fns]
         /\ UNCHANGED <<max_cache_size, meter, current_cache_size,
                        reads_cached, muts_cached, reader, ops, fns>>
         /\ lastOp.op = "effect" => lastOp'.res = lastOp.res]_vars

\* effect() taken twice in a row, after calls that recorded a transform.
C21_Witness ==
    /\ lastOp.op = "effect"
    /\ lastOp.info = 2
    /\ lastOp.res.transforms # EmptyMap
    /\ lastOp.res = [ops |-> ops, transforms |-> fns]

\* C22, as stated: when apply(t1 + t2, v) and apply(t2, apply(t1, v)) are
\* both defined they are equal, and when one of them is a type mismatch so is
\* the other.
C22_MismatchBothOrNeither ==
    lastOp.op = "compose" =>
        /\ lastOp.res.composed.ok /\ lastOp.res.inTurn.ok =>
               lastOp.res.composed = lastOp.res.inTurn
        /\ lastOp.res.composed.ok <=> lastOp.res.inTurn.ok

\* C22: when apply(t2, apply(t1, v)) is defined, apply(t1 + t2, v) is defined
\* and equal to it; apply(t1 + t2, v) is also defined, and is the written
\* value, when t2 is a Write and t1 does not apply to v, which is the only case
\* where one is defined and the other is a type mismatch.
C22_ComposeIsApplyInTurn ==
    lastOp.op = "compose" =>
        /\ lastOp.res.inTurn.ok => lastOp.res.composed = lastOp.res.inTurn
        /\ lastOp.res.composed.ok /\ ~lastOp.res.inTurn.ok =>
               /\ lastOp.val.t2.tag = "Write"
               /\ ~Apply(lastOp.val.t1, lastOp.val.v).ok
               /\ lastOp.res.composed = Ok(lastOp.val.t2.v)

\* Two additions composed and applied to an Int32, the sum wrapping around.
C22_Witness ==
    /\ lastOp.op = "compose"
    /\ lastOp.val.t1 = AddInt32(MaxI32)
    /\ lastOp.val.t2 = AddInt32(1)
    /\ lastOp.res.inTurn = Ok(Int32(MinI32 + 1))
    /\ lastOp.res.composed = lastOp.res.inTurn

\* C23: two TrackingCopy instances over the same backing state that are given
\* the same calls return the same result at every call and have equal effects,
\* also when one of them evicts from its read tier what the other keeps.
C23_SameCallsSameResults ==
    other.tag = "Pair" =>
        /\ other.res = lastOp.res
        /\ effect(other.tc) = effect(TC)

\* A read that the first instance answers from its read tier and the second,
\* which has evicted the entry, from the reader.
C23_Witness ==
    /\ other.tag = "Pair"
    /\ lastOp.op = "read"
    /\ lastOp.res # None
    /\ lastOp.info = 0
    /\ other.calls = 1
    /\ other.res = lastOp.res
    /\ other.tc.cache.reads_cached # reads_cached

\* The calls of hist made one after the other, starting from r.
RECURSIVE Replay(_, _, _)
Replay(r, rd, hist) ==
    IF hist = <<>> THEN r
    ELSE Replay(ApplyCall(Fields(r.tc), rd, Head(hist)), rd, Tail(hist))

\* What a fresh TrackingCopy over the initial backing state comes to, and what
\* its last call returns, when the calls of hist are the only calls made.
Alone(hist) == Replay([tc |-> NewTrackingCopy, res |-> None], GlobalState, hist)

\* C24: of two TrackingCopy instances over the same reader whose calls are
\* interleaved in any order, each returns what it returns when its calls run
\* alone and has the cache, ops and transforms (so the effect) it has then,
\* and the backing state stays as it was.
C24_InstancesAreIsolated ==
    other.tag = "Two" =>
        /\ reader = GlobalState
        /\ Fields(Alone(other.mine).tc) = TC
        /\ Alone(other.mine).res = lastOp.res
        /\ effect(Alone(other.mine).tc) = effect(TC)
        /\ Fields(Alone(other.theirs).tc) = other.tc
        /\ Alone(other.theirs).res = other.res
        /\ effect(Alone(other.theirs).tc) = effect(other.tc)

\* The first instance has written a key, and the second then reads the same
\* key and gets the value of the backing state.
C24_Witness ==
    /\ other.tag = "Two"
    /\ other.last = 2
    /\ lastOp.op = "write"
    /\ muts_cached[normalize(lastOp.key)] # GlobalState[normalize(lastOp.key)]
    /\ other.theirs = <<ReadCall(lastOp.key)>>
    /\ other.res = Some(GlobalState[normalize(lastOp.key)])

\* Paths that go round a value that names itself.
CyclePaths == Paths \cup {<<"s", "s">>, <<"s", "s", "s">>}

\* C25 (under CallsSpec): from any state, a query returns after at most
\* Len(path) + 1 calls of read, and so of the reader, whether the reader fails
\* or not, also when a value names its own key so that the names never end.
C25_QueryReadsAreBounded ==
    \A key \in CallKeys, path \in CyclePaths, bad \in BadSets :
        LET q == query(TC, reader, bad, key, path).tc
        IN  /\ Len(q.reads) <= Len(path) + 1
            /\ q.calls <= Len(q.reads)

\* The cell holds an account whose name s is the cell itself: a query has
\* followed s once, and following it three times takes four reads.
C25_Witness ==
    /\ lastOp.op = "query"
    /\ normalize(lastOp.key) = normalize(StateURef)
    /\ lastOp.val = <<"s">>
    /\ lastOp.res = QSuccess(Account("s" :> StateURefRead))
    /\ query(TC, reader, {}, lastOp.key, <<"s", "s", "s">>).res = lastOp.res
    /\ Len(query(TC, reader, {}, lastOp.key, <<"s", "s", "s">>).tc.reads) = 4

\* C26 (under CacheSpec): when insert_read has returned, current_cache_size
\* is at most max_cache_size or the read tier is empty; the counter is never
\* negative.
C26_CounterWithinLimitOrEmpty ==
    lastOp.op = "insert_read" =>
        /\ current_cache_size <= max_cache_size \/ reads_cached = <<>>
        /\ current_cache_size >= 0

\* An insert_read whose eviction has emptied the read tier, with weight of
\* entries replaced earlier still in the counter.
C26_Witness ==
    /\ lastOp.op = "insert_read"
    /\ lastOp.info > 0
    /\ reads_cached = <<>>
    /\ current_cache_size > 0

C29_WriteThenAddStaysWrite ==
    \A key \in CallKeys, a \in {1, MaxI32}, b \in {1, MaxI32} :
        LET k == normalize(key)
            bad == {k}
            r == add(Fields(write(TC, key, Int32(a))), reader, bad, key, Int32(b))
            sum == Int32(WrappingAdd32(a, b))
        IN  /\ r.res = Success
            /\ r.tc.calls = 0
            /\ r.tc.ops[k] = OpWrite
            /\ get(Fields(r.tc), reader, bad, k).res = Some(sum)
            /\ \A v \in AlgValues : Apply(r.tc.fns[k], v) = Ok(sum)

\* An Int32 written to a key the backing state has no value for, and then
\* added to, the sum wrapping around.
C29_Witness ==
    /\ lastOp.op = "add"
    /\ lastOp.key = MissingKey
    /\ lastOp.val = Int32(MaxI32)
    /\ lastOp.before = OpWrite
    /\ lastOp.res = Success
    /\ ops[MissingKey] = OpWrite
    /\ fns[MissingKey] = TWrite(Int32(MinI32))
    /\ muts_cached[MissingKey] = Int32(MinI32)

\* C30: no call of read, write, add or query removes an entry: every key of
\* ops, of fns and of the mutation tier is still a key after the call; a key
\* whose op is Write keeps Write, and a key whose op is Add does not go back
\* to Read.
C30_EntriesOnlyGrow ==
    [][/\ DOMAIN ops \subseteq DOMAIN ops'
       /\ DOMAIN fns \subseteq DOMAIN fns'
       /\ DOMAIN muts_cached \subseteq DOMAIN muts_cached'
       /\ \A k \in DOMAIN ops :
             /\ ops[k] = OpWrite => ops'[k] = OpWrite
             /\ ops[k] = OpAdd => ops'[k] # OpRead]_vars

\* A read of a key that had been written: the entries of the key are kept and
\* its op is still Write.
C30_Witness ==
    /\ lastOp.op = "read"
    /\ lastOp.before = OpWrite
    /\ lastOp.res.tag = "Some"
    /\ ops[normalize(lastOp.key)] = OpWrite
    /\ fns[normalize(lastOp.key)].tag = "Write"
    /\ normalize(lastOp.key) \in DOMAIN muts_cached

\* Where the walk along path stops, from the value v at index i (0-based):
\* the index and the reason, "end" when every name was followed.
RECURSIVE StopFrom(_, _, _)
StopFrom(v, path, i) ==
    IF i >= Len(path) THEN [why |-> "end", i |-> i]
    ELSE IF v.tag \notin {"Account", "Contract"} THEN [why |-> "not followable", i |-> i]
    ELSE IF path[i + 1] \notin DOMAIN v.urefs THEN [why |-> "name absent", i |-> i]
    ELSE IF OverlayValue(normalize(v.urefs[path[i + 1]])) = None
    THEN [why |-> "key without value", i |-> i]
    ELSE StopFrom(OverlayValue(normalize(v.urefs[path[i + 1]])).v, path, i + 1)

\* Where query(key, path) stops when the reader does not fail.
StopOf(key, path) ==
    IF OverlayValue(normalize(key)) = None THEN [why |-> "base without value", i |-> 0]
    ELSE StopFrom(OverlayValue(normalize(key)).v, path, 0)

\* The number of read calls of a query that stops at st: the base key, one for
\* each name followed, and the read that found no value.
ReadsUntil(st) ==
    CASE st.why = "base without value" -> 1
      [] st.why = "key without value" -> st.i + 2
      [] OTHER -> st.i + 1

\* C31 (under QuerySpec): from any state, with a reader that does not fail,
\* query returns ValueNotFound exactly when the base key has no value, a name
\* is absent from the Account or Contract reached, the key bound to a name has
\* no value, or a name is to be followed from a value that is neither; it
\* returns Success otherwise.  The message carries the text of that case, and
\* no key is read after the step where the walk stopped.
C31_ValueNotFoundCases ==
    \A key \in CallKeys, path \in Paths :
        LET q == query(TC, reader, {}, key, path)
            st == StopOf(key, path)
        IN  /\ q.res.tag = "ValueNotFound" <=> st.why # "end"
            /\ q.res.tag = "Success" <=> st.why = "end"
            /\ Len(q.tc.reads) = ReadsUntil(st)
            /\ st.why = "base without value" => q.res.msg.missing_key = EmptyText
            /\ st.why = "name absent" =>
                   q.res.msg.missing_key.text = "Name {} not found in {} at path:"
            /\ st.why = "key without value" =>
                   q.res.msg.missing_key.text = "Name {:?} not found: "
            /\ st.why = "not followable" =>
                   q.res.msg.missing_key.name = path[st.i + 1]

\* The query of query_path with one more name: it stopped at the Int32 of
\* the cell, which cannot be followed.
C31_Witness ==
    /\ lastOp.op = "query"
    /\ lastOp.key = AccountKey
    /\ lastOp.val = <<"c", "s", "c">>
    /\ lastOp.res.tag = "ValueNotFound"
    /\ lastOp.res.msg.missing_key = CannotFollow("c", Int32(1))
    /\ StopOf(lastOp.key, lastOp.val) = [why |-> "not followable", i |-> 2]

\* C32 (under QuerySpec): from any state, with a reader that does not fail,
\* the message of a query that fails at path index i names the base key as it
\* was given, followed by the names at the indices before i, in their order:
\* none when the base key has no value or the first name fails, and never the
\* failing name or a later one.
C32_MessageNamesPathBeforeFailure ==
    \A key \in CallKeys, path \in Paths :
        LET q == query(TC, reader, {}, key, path)
            st == StopOf(key, path)
        IN  st.why # "end" =>
               /\ q.res.msg.key = key
               /\ q.res.msg.suffix = SubSeq(path, 1, st.i)
               /\ Len(q.res.msg.suffix) < Len(path) \/ path = <<>>

\* A query that failed at the third name: the message has the key as given
\* and the first two names.
C32_Witness ==
    /\ lastOp.op = "query"
    /\ lastOp.val = <<"c", "s", "c">>
    /\ lastOp.res.tag = "ValueNotFound"
    /\ lastOp.res.msg.key = lastOp.key
    /\ lastOp.res.msg.suffix = <<"c", "s">>
    /\ StopOf(lastOp.key, lastOp.val).i = 2

\* C33, as stated: after any calls of get, read, write, add and query with
\* raw keys, every key of ops, of fns, of the mutation tier and of the read
\* tier is a normalized key.
C33_AllKeysNormalized ==
    \A k \in DOMAIN ops \cup DOMAIN fns \cup DOMAIN muts_cached
              \cup {reads_cached[i].key : i \in 1..Len(reads_cached)} :
        normalize(k) = k

\* A get of a URef given with its access rights, answered by the reader: the
\* read tier holds the key as it was given.
C33_Witness ==
    /\ lastOp.op = "get"
    /\ lastOp.key = StateURef
    /\ normalize(lastOp.key) # lastOp.key
    /\ lastOp.res = Some(Int32(1))
    /\ LhmContains(reads_cached, StateURef)

\* C34: a read that finds the key in neither tier of the cache and not in the
\* backing state returns None after one call of the reader and leaves ops,
\* fns and the cache as they were; a read of the same key right after it
\* returns None after a call of the reader again.
C34_MissesAreNotCached ==
    [][/\ lastOp'.op = "read" /\ lastOp'.res = None =>
            /\ normalize(lastOp'.key) \notin DOMAIN muts_cached
            /\ ~LhmContains(reads_cached, normalize(lastOp'.key))
            /\ normalize(lastOp'.key) \notin DOMAIN reader
            /\ lastOp'.info = 1
            /\ UNCHANGED <<max_cache_size, meter, current_cache_size,
                           reads_cached, muts_cached, ops, fns>>
       /\ lastOp.op = "read" /\ lastOp.res = None /\ lastOp'.op = "read"
            /\ lastOp'.key = lastOp.key =>
               lastOp'.res = None /\ lastOp'.info = 1]_vars

\* The second of two calls on a key without a value, a read: the reader was
\* called, and the overlay is as TrackingCopy::new left it.
C34_Witness ==
    /\ lastOp.op = "read"
    /\ lastOp.key = MissingKey
    /\ lastOp.res = None
    /\ lastOp.info = 1
    /\ steps = 2
    /\ DOMAIN touch = {MissingKey}
    /\ ops = EmptyMap
    /\ fns = EmptyMap
    /\ is_empty(Cache)

\* C35, as stated (under CacheSpec): after any calls of insert_read,
\* insert_write and get, current_cache_size is the sum of the weights the meter
\* gives the entries held in the read tier.
C35_CounterIsSumOfWeights ==
    current_cache_size = SumWeights(meter, reads_cached)

\* An insert_read of a key that the read tier held: the counter has grown by
\* the weight of the new entry and still has the weight of the one replaced.
C35_Witness ==
    /\ lastOp.op = "insert_read"
    /\ lastOp.info = 0
    /\ meter = CountMeter
    /\ Len(reads_cached) = 1
    /\ current_cache_size = 2
    /\ reads_cached[1].key = lastOp.key

\* Every entry the loop pops from the cache c weighs at most what the counter
\* holds when it is popped.
RECURSIVE PopsFit(_)
PopsFit(c) ==
    IF c.current_cache_size > c.max_cache_size /\ c.reads_cached # <<>>
    THEN LET e == Head(c.reads_cached)
             element_size == Measure(c.meter, e.key, e.value)
         IN  /\ element_size <= c.current_cache_size
             /\ PopsFit([c EXCEPT !.reads_cached = Tail(@),
                                  !.current_cache_size = @ - element_size])
    ELSE TRUE

\* C36 (under CacheSpec): the subtraction of the eviction loop never goes
\* below zero: in every insert_read, also of a key the read tier holds and
\* with a value of another weight, each entry popped weighs at most the
\* counter at that moment, and the counter is not negative afterwards.
C36_EvictionNeverUnderflows ==
    [][lastOp'.op = "insert_read" =>
         /\ PopsFit([Cache EXCEPT
                       !.reads_cached = LhmInsert(@, lastOp'.key, lastOp'.val),
                       !.current_cache_size =
                           @ + Measure(meter, lastOp'.key, lastOp'.val)])
         /\ current_cache_size' >= 0]_vars

\* An insert_read that popped entries while the counter still held the
\* weight of a replaced entry, under a meter that weighs the two values
\* differently.
C36_Witness ==
    /\ lastOp.op = "insert_read"
    /\ lastOp.info > 0
    /\ meter.kind = "Table"
    /\ meter.weight[Int32(1)] # meter.weight[Int32(2)]
    /\ current_cache_size > SumWeights(meter, reads_cached)
    /\ reads_cached # <<>>

\* C37 (under LoopSpec): from every state of the cache whose counter is at
\* least the weight of the entries held, and under every meter, one that
\* weighs entries zero included, the loop of insert_read ends, after
\* at most one iteration more than the read tier has entries when the loop
\* starts, and leaves the cache that insert_read returns.
C37_EvictionLoopTerminates ==
    lastOp.op = "insert_read" =>
        /\ lastOp.res.done
        /\ lastOp.res.iterations <= lastOp.res.entries + 1
        /\ lastOp.res.left = Cache

\* The loop popped every entry, weightless ones among them, and broke on the
\* empty tier with the counter still above the bound.
C37_Witness ==
    /\ lastOp.op = "insert_read"
    /\ lastOp.res.done
    /\ lastOp.res.entries >= 2
    /\ lastOp.res.iterations = lastOp.res.entries + 1
    /\ Measure(meter, lastOp.key, lastOp.val) = 0
    /\ reads_cached = <<>>
    /\ current_cache_size > max_cache_size

\* C38: a read that finds a value leaves the transform recorded for every key
\* as it was, the key read included: an addition stays the addition, a Write
\* stays the Write of the same value; and the op of a key that is Write stays
\* Write.
C38_ReadKeepsTransform ==
    [][lastOp'.op = "read" /\ lastOp'.res.tag = "Some" =>
         /\ \A k \in DOMAIN fns : fns'[k] = fns[k]
         /\ \A k \in DOMAIN ops : ops[k] = OpWrite => ops'[k] = OpWrite]_vars

\* A read of a key after an addition to it: the transform is the addition.
C38_Witness ==
    /\ lastOp.op = "read"
    /\ lastOp.res.tag = "Some"
    /\ lastOp.before = OpAdd
    /\ fns[normalize(lastOp.key)].tag \in {"AddInt32", "AddKeys"} \cup AddUIntTags

\* The keys a call has read with a value, from the log of its reads.
HitKeys(log) == {log[j].key : j \in {i \in 1..Len(log) : log[i].kind = "read_hit"}}
HitCount(log) == Cardinality({i \in 1..Len(log) : log[i].kind = "read_hit"})

\* Whether the cache c holds the key k, in either tier.
Cached(c, k) == k \in DOMAIN c.muts_cached \/ LhmContains(c.reads_cached, k)

\* The weight the keys of ks bring into the read tier of the current cache
\* when they are read: nothing for a key the cache holds.
RECURSIVE WeightToCache(_)
WeightToCache(ks) ==
    IF ks = {} THEN 0
    ELSE LET k == CHOOSE x \in ks : TRUE IN
         (IF Cached(Cache, k) \/ k \notin DOMAIN reader THEN 0
          ELSE Measure(meter, k, reader[k]))
         + WeightToCache(ks \ {k})

\* The reader fails on no key, on the contract, or on the cell.
QueryBadSets == BadSets \cup {{normalize(StateURef)}}

\* C39, as stated (under QuerySpec): from any state, a query that ends in
\* ValueNotFound or in the reader's error after it has followed a name leaves
\* the base key and every key it read before the failing step in ops and in
\* fns, and in the cache.
C39_FailedQueryKeepsAndCaches ==
    \A key \in CallKeys, path \in Paths, bad \in QueryBadSets :
        LET q == query(TC, reader, bad, key, path) IN
        (q.res.tag # "Success" /\ HitCount(q.tc.reads) >= 2) =>
            \A k \in HitKeys(q.tc.reads) :
                /\ k \in DOMAIN q.tc.ops
                /\ k \in DOMAIN q.tc.fns
                /\ Cached(q.tc.cache, k)

\* C39: from any state, a query that ends in ValueNotFound or in the reader's
\* error after it has followed a name leaves the base key and every key it
\* read before the failing step in ops and in fns, everything recorded before
\* the query included; these keys are in the cache afterwards when the
\* entries the query adds to the read tier fit into max_cache_size with what
\* the counter holds, and may have been evicted otherwise.
C39_FailedQueryIsNotRolledBack ==
    \A key \in CallKeys, path \in Paths, bad \in QueryBadSets :
        LET q == query(TC, reader, bad, key, path) IN
        (q.res.tag # "Success" /\ HitCount(q.tc.reads) >= 2) =>
            /\ DOMAIN q.tc.ops = DOMAIN ops \cup HitKeys(q.tc.reads)
            /\ DOMAIN q.tc.fns = DOMAIN fns \cup HitKeys(q.tc.reads)
            /\ current_cache_size + WeightToCache(HitKeys(q.tc.reads))
                    <= max_cache_size =>
                  \A k \in HitKeys(q.tc.reads) : Cached(q.tc.cache, k)

\* A query from the account that failed at its second name: the account and
\* the contract are recorded as read, and the contract, larger than the
\* cache, has taken the account along out of the read tier.
C39_Witness ==
    /\ lastOp.op = "query"
    /\ lastOp.key = AccountKey
    /\ lastOp.val = <<"c", "c">>
    /\ lastOp.res.tag = "ValueNotFound"
    /\ ops = (AccountKey :> OpRead) @@ (ContractKey :> OpRead)
    /\ fns = (AccountKey :> Identity) @@ (ContractKey :> Identity)
    /\ reads_cached = <<>>

\* A query that failed at its third name after reading three keys that fit
\* into the cache: all three are cached.
C39_CachedWitness ==
    /\ lastOp.op = "query"
    /\ lastOp.val = <<"c", "s", "c">>
    /\ lastOp.res.tag = "ValueNotFound"
    /\ Cardinality(DOMAIN ops) = 3
    /\ \A k \in DOMAIN ops : Cached(Cache, k)

====
